---------------------------- MODULE Spec2Model ----------------------------
(***************************************************************************)
(* Symbol-hallucination detector of chainguard (mcp-server/chainguard):    *)
(* symbol_patterns.py, symbol_validator.py and the symbol tools of         *)
(* handlers.py.                                                            *)
(*                                                                         *)
(* Text is modelled character by character: the regular expressions of     *)
(* the program are operators that scan the characters of a string; a       *)
(* source file is the sequence of its lines (content.split('\n')).         *)
(* Confidences are integers in thousandths (1000 = 1.0), so that every     *)
(* adjustment of ConfidenceCalculator and the halving done by              *)
(* SymbolValidator.validate are exact.                                     *)
(***************************************************************************)
EXTENDS Integers, Sequences, FiniteSets, TLC

(***************************************************************************)
(* Characters and generic string helpers.  A string of the program is a    *)
(* TLA+ string; Ch(s, i) is its i-th character (a string of length 1).     *)
(***************************************************************************)
LowerSeq == <<"a","b","c","d","e","f","g","h","i","j","k","l","m",
              "n","o","p","q","r","s","t","u","v","w","x","y","z">>

UpperSeq == <<"A","B","C","D","E","F","G","H","I","J","K","L","M",
              "N","O","P","Q","R","S","T","U","V","W","X","Y","Z">>

LowerCh == {LowerSeq[i] : i \in DOMAIN LowerSeq}

UpperCh == {UpperSeq[i] : i \in DOMAIN UpperSeq}

DigitCh == {"0","1","2","3","4","5","6","7","8","9"}

\* [a-zA-Z_]
IdentStartCh == LowerCh \cup UpperCh \cup {"_"}

\* \w, which is also [a-zA-Z0-9_]
WordCh == IdentStartCh \cup DigitCh

\* [a-z_] and [a-z0-9_] (Python definition names)
LowerStartCh == LowerCh \cup {"_"}

LowerWordCh == LowerCh \cup DigitCh \cup {"_"}

\* \s (of the characters that occur in the texts of this model)
SpaceCh == {" ", "\t", "\n"}

Ch(s, i) == SubSeq(s, i, i)

\* s[i:], i counted from 1
From(s, i) == SubSeq(s, i, Len(s))

\* str.lower() on one character
ToLowerCh(c) ==
    IF c \in UpperCh
    THEN LowerSeq[CHOOSE i \in DOMAIN UpperSeq : UpperSeq[i] = c]
    ELSE c

\* str.lower()
RECURSIVE ToLower(_)
ToLower(s) ==
    IF Len(s) = 0 THEN "" ELSE ToLowerCh(Ch(s, 1)) \o ToLower(From(s, 2))

\* s[i:].startswith(p), i counted from 1
StartsWithAt(s, i, p) ==
    /\ i >= 1
    /\ i + Len(p) - 1 <= Len(s)
    /\ SubSeq(s, i, i + Len(p) - 1) = p

\* s.startswith(p)
StartsWith(s, p) == StartsWithAt(s, 1, p)

\* p in s
Contains(s, p) == \E i \in 1..(Len(s) + 1) : StartsWithAt(s, i, p)

\* the first index >= i of s that holds no character of cls (Len(s)+1 if none)
RECURSIVE SkipWhile(_, _, _)
SkipWhile(s, i, cls) ==
    IF i <= Len(s) /\ Ch(s, i) \in cls THEN SkipWhile(s, i + 1, cls) ELSE i

RECURSIVE RStripEnd(_, _)
RStripEnd(s, j) ==
    IF j >= 1 /\ Ch(s, j) \in SpaceCh THEN RStripEnd(s, j - 1) ELSE j

\* str.strip()
Strip(s) ==
    LET a == SkipWhile(s, 1, SpaceCh)
        b == RStripEnd(s, Len(s))
    IN  IF a > b THEN "" ELSE SubSeq(s, a, b)

SeqToSet(s) == {s[i] : i \in DOMAIN s}

Max2(a, b) == IF a >= b THEN a ELSE b

Min2(a, b) == IF a <= b THEN a ELSE b

(***************************************************************************)
(* symbol_patterns.py: languages, file extensions, vocabularies            *)
(***************************************************************************)
Language == {"PHP", "JAVASCRIPT", "TYPESCRIPT", "PYTHON", "CSHARP", "GO", "RUST"}

\* detect_language returns None
NoLanguage == "NONE"

EXTENSION_MAP ==
    [e \in {".php", ".js", ".mjs", ".cjs", ".jsx", ".ts", ".tsx", ".mts",
            ".py", ".pyw", ".cs", ".go", ".rs"} |->
        CASE e = ".php" -> "PHP"
          [] e \in {".js", ".mjs", ".cjs", ".jsx"} -> "JAVASCRIPT"
          [] e \in {".ts", ".tsx", ".mts"} -> "TYPESCRIPT"
          [] e \in {".py", ".pyw"} -> "PYTHON"
          [] e = ".cs" -> "CSHARP"
          [] e = ".go" -> "GO"
          [] e = ".rs" -> "RUST"]

\* the last index of character c in s, 0 if there is none (str.rfind + 1)
RECURSIVE RFind(_, _, _)
RFind(s, c, j) ==
    IF j < 1 THEN 0 ELSE IF Ch(s, j) = c THEN j ELSE RFind(s, c, j - 1)

\* os.path.splitext(p)[1]: the extension starts at the last dot of the last
\* path component, unless only dots precede it in that component
SplitExt(p) ==
    LET sep == RFind(p, "/", Len(p))
        dot == RFind(p, ".", Len(p))
    IN  IF dot > sep /\ SkipWhile(p, sep + 1, {"."}) < dot
        THEN From(p, dot)
        ELSE ""

detect_language(file_path) ==
    LET ext == ToLower(SplitExt(file_path))
    IN  IF ext \in DOMAIN EXTENSION_MAP THEN EXTENSION_MAP[ext] ELSE NoLanguage

\* BUILTINS: of each language's table, the members that the source texts of
\* this model can name (the tables hold several hundred names each)
BUILTINS ==
    [l \in Language |->
        CASE l = "PHP" ->
                {"isset", "empty", "print", "eval", "strlen", "count", "sort",
                 "call_user_func", "method_exists", "__call", "__callStatic",
                 "__toString"}
          [] l = "PYTHON" ->
                {"print", "len", "eval", "exec", "getattr", "setattr", "hasattr",
                 "get", "find", "count", "sort", "update", "remove", "format",
                 "Exception", "__init__"}
          [] OTHER -> {}]

\* is_builtin; PHPBuiltinsLoader.load adds names to BUILTINS[PHP] and removes
\* none, and the names it could add are not among the inputs of this model
is_builtin(name, lang) ==
    IF lang = "PHP"
    THEN ToLower(name) \in BUILTINS[lang]
    ELSE name \in BUILTINS[lang]

\* COMMON_EXTERNAL_NAMES: the members that the source texts of this model can
\* name
COMMON_EXTERNAL_NAMES ==
    {"get", "fetch", "find", "findById", "save", "update", "create", "delete",
     "remove", "execute", "handle", "process", "validate", "on", "init",
     "count", "sort", "map", "filter"}

is_common_external(name) ==
    name \in COMMON_EXTERNAL_NAMES \/ ToLower(name) \in COMMON_EXTERNAL_NAMES

\* the keywords of SymbolExtractor._is_valid_symbol
KEYWORDS ==
    {"if", "else", "elseif", "elif", "for", "while", "do", "switch", "case",
     "break", "continue", "return", "yield", "try", "catch", "finally",
     "throw", "throws", "raise",
     "class", "interface", "trait", "struct", "enum", "function", "fn", "func",
     "def", "const", "let", "var", "static", "async", "await",
     "public", "private", "protected", "internal", "final", "abstract",
     "virtual", "override",
     "true", "false", "null", "nil", "None", "undefined", "void",
     "int", "float", "double", "bool", "boolean",
     "this", "self", "super",
     "import", "export", "default", "use", "namespace", "package", "module",
     "mod", "pub", "crate", "impl", "loop", "move", "mut", "ref", "unsafe",
     "extern", "dyn", "box",
     "go", "defer", "chan", "select", "range", "type"}

\* SymbolExtractor._is_valid_symbol
is_valid_symbol(name, lang) ==
    /\ Len(name) >= 2
    /\ ToLower(name) \notin KEYWORDS

(***************************************************************************)
(* Regular expressions.  A pattern of the program is written as the        *)
(* sequence of its parts; MatchAt is re's matching of that sequence at one *)
(* position.  Every repetition of these patterns is followed by a part     *)
(* that none of the repeated characters can start, so the greedy match is  *)
(* the only match and no backtracking is modelled.                         *)
(*   Lit(v)        the literal v                                           *)
(*   Alt(v)        an alternation of the literals v[1], v[2], ...          *)
(*   Ws0, Ws1      zero or more, one or more whitespace characters         *)
(*   Cap(f, r)     a capturing group: one character of f, then any of r    *)
(*   Grp(f, r)     the same, not capturing                                 *)
(*   OneOf(v)      one character of the class v                            *)
(*   Wb            a word boundary                                         *)
(*   OptWs(v)      optionally: the literal v and one or more whitespace    *)
(*   Not1(v)       one or more characters that are not in v                *)
(*   OptMember     optionally: a word, whitespace, a dot, whitespace       *)
(***************************************************************************)
Lit(v) == [op |-> "lit", v |-> v]

Alt(v) == [op |-> "alt", v |-> v]

Ws0 == [op |-> "ws0"]

Ws1 == [op |-> "ws1"]

Cap(f, r) == [op |-> "cap", first |-> f, rest |-> r]

Grp(f, r) == [op |-> "grp", first |-> f, rest |-> r]

OneOf(v) == [op |-> "set", v |-> v]

Wb == [op |-> "wb"]

OptWs(v) == [op |-> "optws", v |-> v]

Not1(v) == [op |-> "not1", v |-> v]

OptMember == [op |-> "optmember"]

\* the index after the characters from index i on that are not in cls
RECURSIVE SkipUntil(_, _, _)
SkipUntil(s, i, cls) ==
    IF i <= Len(s) /\ Ch(s, i) \notin cls THEN SkipUntil(s, i + 1, cls) ELSE i

\* the end of a word, whitespace, a dot and whitespace at index i; 0 if
\* they are not there
MemberEnd(s, i) ==
    IF i <= Len(s) /\ Ch(s, i) \in WordCh
    THEN (IF SkipWhile(s, SkipWhile(s, i, WordCh), SpaceCh) <= Len(s)
             /\ Ch(s, SkipWhile(s, SkipWhile(s, i, WordCh), SpaceCh)) = "."
          THEN SkipWhile(s, SkipWhile(s, SkipWhile(s, i, WordCh), SpaceCh) + 1,
                         SpaceCh)
          ELSE 0)
    ELSE 0

\* [a-zA-Z_][a-zA-Z0-9_]* as a capture, and \w+
CapIdent == Cap(IdentStartCh, WordCh)

Word1 == Grp(WordCh, WordCh)

\* no match
NoMatch == [end |-> 0, name |-> ""]

IsWordAt(s, i) == i >= 1 /\ i <= Len(s) /\ Ch(s, i) \in WordCh

\* the end (the index after the last matched character) of part p of a
\* pattern matched at index i of s; 0 if it does not match there
PartEnd(s, i, p) ==
    CASE p.op = "lit" -> IF StartsWithAt(s, i, p.v) THEN i + Len(p.v) ELSE 0
      [] p.op = "alt" ->
            IF \E k \in DOMAIN p.v : StartsWithAt(s, i, p.v[k])
            THEN LET k == CHOOSE k \in DOMAIN p.v :
                            /\ StartsWithAt(s, i, p.v[k])
                            /\ \A j \in 1..(k - 1) : ~StartsWithAt(s, i, p.v[j])
                 IN  i + Len(p.v[k])
            ELSE 0
      [] p.op = "ws0" -> SkipWhile(s, i, SpaceCh)
      [] p.op = "ws1" ->
            IF i <= Len(s) /\ Ch(s, i) \in SpaceCh
            THEN SkipWhile(s, i, SpaceCh) ELSE 0
      [] p.op \in {"cap", "grp"} ->
            IF i <= Len(s) /\ Ch(s, i) \in p.first
            THEN SkipWhile(s, i + 1, p.rest) ELSE 0
      [] p.op = "set" -> IF i <= Len(s) /\ Ch(s, i) \in p.v THEN i + 1 ELSE 0
      [] p.op = "wb" -> IF IsWordAt(s, i - 1) # IsWordAt(s, i) THEN i ELSE 0
      [] p.op = "optws" ->
            IF StartsWithAt(s, i, p.v)
            THEN (IF i + Len(p.v) <= Len(s) /\ Ch(s, i + Len(p.v)) \in SpaceCh
                  THEN SkipWhile(s, i + Len(p.v), SpaceCh) ELSE 0)
            ELSE i
      [] p.op = "not1" ->
            IF i <= Len(s) /\ Ch(s, i) \notin p.v
            THEN SkipUntil(s, i + 1, p.v) ELSE 0
      [] p.op = "optmember" -> IF MemberEnd(s, i) > 0 THEN MemberEnd(s, i) ELSE i

\* pattern.match(s, i): parts k.. of pat matched from index i, the capture
\* found so far being name
RECURSIVE MatchFrom(_, _, _, _, _)
MatchFrom(s, i, pat, k, name) ==
    IF k > Len(pat) THEN [end |-> i, name |-> name]
    ELSE LET e == PartEnd(s, i, pat[k])
         IN  IF e = 0 THEN NoMatch
             ELSE MatchFrom(s, e, pat, k + 1,
                     IF pat[k].op = "cap" THEN SubSeq(s, i, e - 1) ELSE name)

MatchAt(s, i, pat) == MatchFrom(s, i, pat, 1, "")

\* pattern.search(s) is not None
Search(s, pat) == \E i \in 1..Len(s) : MatchAt(s, i, pat).end > 0

\* [m.group(1) for m in pattern.finditer(s)]: the leftmost match, then the
\* leftmost match after its end, and so on
RECURSIVE FindIterFrom(_, _, _)
FindIterFrom(s, i, pat) ==
    IF i > Len(s) THEN <<>>
    ELSE LET m == MatchAt(s, i, pat)
         IN  IF m.end > 0
             THEN <<m.name>> \o FindIterFrom(s, Max2(m.end, i + 1), pat)
             ELSE FindIterFrom(s, i + 1, pat)

FindIter(s, pat) == FindIterFrom(s, 1, pat)

(***************************************************************************)
(* symbol_patterns.py: the pattern tables.  The call patterns are those of *)
(* PHP, JavaScript, Python, C# and Go; the definition patterns and the     *)
(* dynamic patterns are those of PHP and Python.                           *)
(***************************************************************************)
\* [a-zA-Z_$] and [a-zA-Z0-9_$] (JavaScript names)
DollarStartCh == IdentStartCh \cup {"$"}

DollarWordCh == WordCh \cup {"$"}

CapDollarIdent == Cap(DollarStartCh, DollarWordCh)

\* [a-zA-Z0-9] (the names of Go)
AlnumCh == WordCh \ {"_"}

CALL_PATTERNS ==
    [l \in {"PHP", "JAVASCRIPT", "PYTHON", "CSHARP", "GO"} |->
        IF l = "PHP"
        THEN << <<Wb, CapIdent, Ws0, Lit("(")>>,
                <<Lit("->"), Ws0, CapIdent, Ws0, Lit("(")>>,
                <<Grp(UpperCh, WordCh), Lit("::"), CapIdent, Ws0, Lit("(")>>,
                <<Lit("?->"), Ws0, CapIdent, Ws0, Lit("(")>> >>
        ELSE IF l = "JAVASCRIPT"
        THEN << <<Wb, CapDollarIdent, Ws0, Lit("(")>>,
                <<Lit("."), Ws0, CapDollarIdent, Ws0, Lit("(")>>,
                <<Lit("?."), Ws0, CapDollarIdent, Ws0, Lit("(")>> >>
        ELSE IF l = "PYTHON"
        THEN << <<Wb, CapIdent, Ws0, Lit("(")>>,
                <<Lit("."), Ws0, CapIdent, Ws0, Lit("(")>> >>
        ELSE IF l = "GO"
        THEN << <<Wb, Cap(LowerCh, AlnumCh), Ws0, Lit("(")>>,
                <<Wb, Cap(UpperCh, AlnumCh), Ws0, Lit("(")>>,
                <<Lit("."), Ws0, Cap(UpperCh, AlnumCh), Ws0, Lit("(")>>,
                <<Grp(LowerCh, AlnumCh), Ws0, Lit("."), Ws0,
                  Cap(UpperCh, AlnumCh), Ws0, Lit("(")>> >>
        ELSE << <<Wb, CapIdent, Ws0, Lit("(")>>,
                <<Lit("."), Ws0, CapIdent, Ws0, Lit("(")>>,
                <<Grp(UpperCh, WordCh), Ws0, Lit("."), Ws0, CapIdent, Ws0,
                  Lit("(")>>,
                <<Wb, CapIdent, Ws0, Lit("<"), Not1({">"}), Lit(">"), Ws0,
                  Lit("(")>>,
                <<Lit("await"), Ws1, OptMember, CapIdent, Ws0, Lit("(")>>,
                <<Lit("?."), Ws0, CapIdent, Ws0, Lit("(")>> >>]

DEFINITION_PATTERNS ==
    [l \in {"PHP", "PYTHON"} |->
        IF l = "PHP"
        THEN << <<Lit("function"), Ws1, CapIdent, Ws0, Lit("(")>>,
                <<Alt(<<"public", "private", "protected">>), Ws1,
                  OptWs("static"), Lit("function"), Ws1, CapIdent, Ws0,
                  Lit("(")>> >>
        ELSE << <<Lit("def"), Ws1, Cap(LowerStartCh, LowerWordCh), Ws0,
                  Lit("(")>>,
                <<Lit("async"), Ws1, Lit("def"), Ws1,
                  Cap(LowerStartCh, LowerWordCh), Ws0, Lit("(")>>,
                <<Lit("class"), Ws1, Cap(UpperCh, WordCh), Ws0,
                  OneOf({":", "("})>> >>]

DYNAMIC_PATTERNS ==
    [l \in {"PHP", "PYTHON"} |->
        IF l = "PHP"
        THEN << <<Lit("$"), Word1, Ws0, Lit("(")>>,
                <<Lit("$this"), Ws0, Lit("->"), Ws0, Lit("$"), Word1>>,
                <<Lit("call_user_func")>>,
                <<Lit("call_user_func_array")>>,
                <<Lit("__call"), Ws0, Lit("(")>>,
                <<Lit("ReflectionMethod")>>,
                <<Lit("ReflectionClass")>>,
                <<Lit("method_exists")>>,
                <<Lit("property_exists")>> >>
        ELSE << <<Lit("getattr"), Ws0, Lit("(")>>,
                <<Lit("setattr"), Ws0, Lit("(")>>,
                <<Lit("hasattr"), Ws0, Lit("(")>>,
                <<Lit("__getattr__")>>,
                <<Lit("__getattribute__")>>,
                <<Lit("exec"), Ws0, Lit("(")>>,
                <<Lit("eval"), Ws0, Lit("(")>>,
                <<Lit("globals"), Ws0, Lit("(")>>,
                <<Lit("locals"), Ws0, Lit("(")>> >>]

\* the languages whose pattern tables are all modelled
ModelledLanguages == DOMAIN DEFINITION_PATTERNS

\* has_dynamic_patterns
has_dynamic_patterns(content, lang) ==
    \E k \in DOMAIN DYNAMIC_PATTERNS[lang] :
        Search(content, DYNAMIC_PATTERNS[lang][k])

(***************************************************************************)
(* symbol_validator.py: SymbolExtractor                                    *)
(***************************************************************************)
\* content.split('\n')
RECURSIVE Split(_)
Split(s) ==
    IF \E i \in 1..Len(s) : Ch(s, i) = "\n"
    THEN LET i == CHOOSE i \in 1..Len(s) :
                    /\ Ch(s, i) = "\n"
                    /\ \A j \in 1..(i - 1) : Ch(s, j) # "\n"
         IN  <<SubSeq(s, 1, i - 1)>> \o Split(From(s, i + 1))
    ELSE <<s>>

\* s[i:].count(q): the occurrences of q, not overlapping, left to right
RECURSIVE CountFrom(_, _, _)
CountFrom(s, i, q) ==
    IF i + Len(q) - 1 > Len(s) THEN 0
    ELSE IF StartsWithAt(s, i, q) THEN 1 + CountFrom(s, i + Len(q), q)
    ELSE CountFrom(s, i + 1, q)

Count(s, q) == CountFrom(s, 1, q)

\* SymbolExtractor._is_comment_line
is_comment_line(line, lang) ==
    LET stripped == Strip(line)
    IN  \/ stripped = ""
        \/ /\ lang \in {"PHP", "JAVASCRIPT", "TYPESCRIPT", "CSHARP", "GO", "RUST"}
           /\ \/ StartsWith(stripped, "//")
              \/ StartsWith(stripped, "/*")
              \/ StartsWith(stripped, "*")
        \/ lang = "PHP" /\ StartsWith(stripped, "#")
        \/ lang = "PYTHON" /\ StartsWith(stripped, "#")

\* the index of the quote q that closes a literal whose contents start at
\* index j: the contents are characters other than q, the backslash and the
\* characters of forbid, or a backslash and one more character; 0 if the
\* literal is not closed that way
RECURSIVE QuotedEnd(_, _, _, _)
QuotedEnd(s, j, q, forbid) ==
    IF j > Len(s) THEN 0
    ELSE IF Ch(s, j) = q THEN j
    ELSE IF Ch(s, j) \in forbid THEN 0
    ELSE IF Ch(s, j) = "\\"
         THEN (IF j + 1 <= Len(s) /\ Ch(s, j + 1) # "\n"
               THEN QuotedEnd(s, j + 2, q, forbid) ELSE 0)
    ELSE QuotedEnd(s, j + 1, q, forbid)

\* re.sub of a quoted-literal pattern by the two quotes: a literal opens at a
\* quote q that no character of notBefore precedes
RECURSIVE StripQuoted(_, _, _, _, _)
StripQuoted(s, i, q, notBefore, forbid) ==
    IF i > Len(s) THEN ""
    ELSE LET e == IF Ch(s, i) = q /\ (i = 1 \/ Ch(s, i - 1) \notin notBefore)
                  THEN QuotedEnd(s, i + 1, q, forbid) ELSE 0
         IN  IF e > 0
             THEN q \o q \o StripQuoted(s, e + 1, q, notBefore, forbid)
             ELSE Ch(s, i) \o StripQuoted(s, i + 1, q, notBefore, forbid)

\* the backquote of a template literal.  A string of TLA+ cannot hold that
\* character; the texts of this model have a circumflex in its place, which
\* like the backquote is no word character, no whitespace and no quote, and
\* is in no pattern
Backquote == "^"

\* the index of the backquote that closes a template literal whose contents
\* start at index j and have no backquote and no dollar; 0 if there is none
RECURSIVE TemplateEnd(_, _)
TemplateEnd(s, j) ==
    IF j > Len(s) THEN 0
    ELSE IF Ch(s, j) = Backquote THEN j
    ELSE IF Ch(s, j) = "$" THEN 0
    ELSE TemplateEnd(s, j + 1)

\* re.sub of the template literals without a dollar by two backquotes
RECURSIVE StripTemplates(_, _)
StripTemplates(s, i) ==
    IF i > Len(s) THEN ""
    ELSE IF Ch(s, i) = Backquote /\ TemplateEnd(s, i + 1) > 0
    THEN Backquote \o Backquote \o StripTemplates(s, TemplateEnd(s, i + 1) + 1)
    ELSE Ch(s, i) \o StripTemplates(s, i + 1)

\* the single-quoted literals of a line whose double-quoted literals are
\* stripped
StripSingleQuoted(line, lang) ==
    IF lang = "PYTHON"
    THEN StripQuoted(line, 1, "'", {"f"}, {"{"})
    ELSE StripQuoted(line, 1, "'", {}, {})

\* SymbolExtractor._strip_string_contents
strip_string_contents(line, lang) ==
    IF lang \in {"JAVASCRIPT", "TYPESCRIPT"}
    THEN StripTemplates(StripSingleQuoted(StripQuoted(line, 1, "\"", {"f", "$"},
                                                      {"{"}), lang), 1)
    ELSE StripSingleQuoted(StripQuoted(line, 1, "\"", {"f", "$"}, {"{"}), lang)

\* SymbolExtractor._find_docstring_lines, Python: one step of the scan of the
\* lines; st = [in_docstring, docstring_char, skip_lines]
DocstringStep(st, line, line_num) ==
    LET quote == IF Count(line, "\"\"\"") > 0 THEN "\"\"\""
                 ELSE IF Count(line, "'''") > 0 THEN "'''" ELSE ""
    IN  IF quote # ""
        THEN IF ~st.in_docstring
             THEN [in_docstring |-> Count(line, quote) < 2,
                   docstring_char |-> IF Count(line, quote) < 2 THEN quote ELSE "",
                   skip_lines |-> st.skip_lines \cup {line_num}]
             ELSE IF st.docstring_char = quote
             THEN [in_docstring |-> FALSE, docstring_char |-> "",
                   skip_lines |-> st.skip_lines \cup {line_num}]
             ELSE st
        ELSE IF st.in_docstring
             THEN [st EXCEPT !.skip_lines = st.skip_lines \cup {line_num}]
             ELSE st

\* SymbolExtractor._find_docstring_lines, C-style languages: one step
CommentStep(st, line, line_num) ==
    IF st.in_docstring
    THEN [st EXCEPT !.skip_lines = st.skip_lines \cup {line_num},
                    !.in_docstring = ~Contains(line, "*/")]
    ELSE IF Contains(line, "/*")
    THEN [st EXCEPT !.skip_lines = st.skip_lines \cup {line_num},
                    !.in_docstring = ~Contains(line, "*/")]
    ELSE st

RECURSIVE ScanLines(_, _, _, _)
ScanLines(st, lines, k, lang) ==
    IF k > Len(lines) THEN st
    ELSE ScanLines(IF lang = "PYTHON" THEN DocstringStep(st, lines[k], k)
                   ELSE CommentStep(st, lines[k], k),
                   lines, k + 1, lang)

\* SymbolExtractor._find_docstring_lines
find_docstring_lines(content, lang) ==
    ScanLines([in_docstring |-> FALSE, docstring_char |-> "", skip_lines |-> {}],
              Split(content), 1, lang).skip_lines

\* the captures of every call pattern of the language in one line, pattern
\* by pattern, each pattern's matches from left to right
RECURSIVE LineCaptures(_, _, _)
LineCaptures(line, pats, k) ==
    IF k > Len(pats) THEN <<>>
    ELSE FindIter(line, pats[k]) \o LineCaptures(line, pats, k + 1)

\* the loop body of extract_calls if it did not look at what was seen
AddCallsUnseen(calls, names, k, line_num, lang) ==
    calls \o [j \in 1..Len(SelectSeq(SubSeq(names, k, Len(names)),
                                     LAMBDA n : n # "" /\ is_valid_symbol(n, lang))) |->
                [name |-> SelectSeq(SubSeq(names, k, Len(names)),
                                    LAMBDA n : n # "" /\ is_valid_symbol(n, lang))[j],
                 line |-> line_num]]

\* the loop body of extract_calls over the captures of one line: a valid
\* name is appended unless (name, line) was seen
RECURSIVE AddCalls(_, _, _, _, _)
AddCalls(calls, names, k, line_num, lang) ==
    IF k > Len(names) THEN calls
    ELSE LET key == [name |-> names[k], line |-> line_num]
         IN  AddCalls(IF /\ names[k] # ""
                         /\ is_valid_symbol(names[k], lang)
                         /\ key \notin SeqToSet(calls)
                      THEN Append(calls, key) ELSE calls,
                      names, k + 1, line_num, lang)

RECURSIVE CallsFrom(_, _, _, _, _)
CallsFrom(calls, lines, k, skip_lines, lang) ==
    IF k > Len(lines) THEN calls
    ELSE IF k \in skip_lines \/ is_comment_line(lines[k], lang)
    THEN CallsFrom(calls, lines, k + 1, skip_lines, lang)
    ELSE CallsFrom(AddCalls(calls,
                            LineCaptures(strip_string_contents(lines[k], lang),
                                         CALL_PATTERNS[lang], 1),
                            1, k, lang),
                   lines, k + 1, skip_lines, lang)

\* SymbolExtractor.extract_calls: the list of (name, line)
extract_calls(content, lang) ==
    CallsFrom(<<>>, Split(content), 1, find_docstring_lines(content, lang), lang)

\* SymbolExtractor.extract_definitions: the patterns are applied to the whole
\* content
extract_definitions(content, lang) ==
    UNION { {n \in SeqToSet(FindIter(content, DEFINITION_PATTERNS[lang][k])) :
                n # "" /\ is_valid_symbol(n, lang)} :
            k \in DOMAIN DEFINITION_PATTERNS[lang] }

\* ConfidenceCalculator._has_many_imports and its patterns
IMPORT_PATTERNS ==
    [l \in {"PHP", "PYTHON"} |->
        IF l = "PHP"
        THEN <<Lit("use"), Ws1, Word1>>
        ELSE <<Alt(<<"import", "from">>), Ws1, Word1>>]

\* more than this many import statements are "many"
ManyImports == 5

\* ConfidenceCalculator._has_many_imports
has_many_imports(content, lang) ==
    Len(FindIter(content, IMPORT_PATTERNS[lang])) > ManyImports

(***************************************************************************)
(* The files of the project and the code under review                      *)
(***************************************************************************)
\* the longest code under review that is made of the two unknown calls
MaxLines == 5

\* the most lines of a code under review that is made of different lines
MaxRich == 2

\* two calls of names that nothing defines: the first has the confidence 1.0
\* in Python, the second is camelCase and has 0.9
BlockLines == {"zork(x)", "myFn(x)"}

\* the lines a code under review of different lines is made of, in the order
\* they are written in
RichLines ==
    <<"import a;import b;import c;import d;import e;import f", "def known():",
      "# zork(x)", "zork(x)", "myFn(x)", "isA(eval(x))", "helper(x)", "helpr(x)",
      "save(x)", "print(x)", "zork(zork(x))">>

\* text with one more line
AppendLine(text, line) == IF text = "" THEN line ELSE text \o "\n" \o line

\* the texts of at most n lines
RECURSIVE Texts(_, _)
Texts(lines, n) ==
    IF n = 0 THEN {""}
    ELSE LET shorter == Texts(lines, n - 1)
         IN  shorter \cup {AppendLine(t, l) : t \in shorter, l \in lines}

\* the texts of at most n of the lines from the k-th on, in their order
RECURSIVE Picks(_, _, _)
Picks(lines, k, n) ==
    IF n = 0 \/ k > Len(lines) THEN {""}
    ELSE Picks(lines, k + 1, n)
         \cup {IF t = "" THEN lines[k] ELSE lines[k] \o "\n" \o t :
                  t \in Picks(lines, k + 1, n - 1)}

\* the project root, Path(working_dir)
working_dir == "/srv/app"

\* the file the code under review is saved in
EditedFile == "/srv/app/a.py"

\* the other files of the project: whether read_text succeeds, and the text
FixedFiles ==
    [p \in {"/srv/app/lib.py", "/srv/app/c.py", "/srv/app/vendor/v.py",
            "/srv/app/lib.php", "/srv/app/b.php", "/srv/app/bad.py",
            "/srv/app/notes.txt"} |->
        CASE p = "/srv/app/lib.py" -> [readable |-> TRUE, text |-> "def helper(x):"]
          [] p = "/srv/app/c.py" -> [readable |-> TRUE, text |-> "known(x)"]
          [] p = "/srv/app/vendor/v.py" -> [readable |-> TRUE, text |-> "def zork(x):"]
          [] p = "/srv/app/lib.php" ->
                [readable |-> TRUE, text |-> "function helper($x) {"]
          [] p = "/srv/app/b.php" ->
                [readable |-> TRUE, text |-> "zork($x);\nhelper($x);\nsave($x);"]
          [] p = "/srv/app/bad.py" -> [readable |-> FALSE, text |-> ""]
          [] p = "/srv/app/notes.txt" -> [readable |-> TRUE, text |-> "zork(x)"]]

\* the file system when the code under review is code
Disk(code) ==
    [p \in DOMAIN FixedFiles \cup {EditedFile} |->
        IF p = EditedFile THEN [readable |-> TRUE, text |-> code]
        ELSE FixedFiles[p]]

\* every text the extractor is given
AllContents ==
    Texts(BlockLines, MaxLines) \cup Picks(RichLines, 1, MaxRich)
    \cup {FixedFiles[p].text : p \in DOMAIN FixedFiles}

\* what the extractor and the calculator read off a text, worked out once
\* for each text: extract_calls, extract_definitions, has_dynamic_patterns
\* and _has_many_imports
Analysis ==
    [c \in AllContents |->
        [l \in ModelledLanguages |->
            [calls |-> extract_calls(c, l),
             definitions |-> extract_definitions(c, l),
             dynamic |-> has_dynamic_patterns(c, l),
             imports |-> has_many_imports(c, l)]]]

(***************************************************************************)
(* symbol_validator.py: ConfidenceCalculator (confidences in thousandths)  *)
(***************************************************************************)
\* ConfidenceCalculator._looks_like_external: re.match tries every pattern at
\* the start of the name, so a pattern such as Async$ matches the name Async
\* and no other
looks_like_external(name, lang) ==
    \/ \E p \in {"get", "set", "is", "has", "on", "handle", "fetch"} :
          /\ StartsWith(name, p)
          /\ Len(name) > Len(p)
          /\ Ch(name, Len(p) + 1) \in UpperCh
    \/ name \in {"Async", "Sync", "Callback", "Handler"}

\* ConfidenceCalculator._is_common_pattern (re.IGNORECASE)
is_common_pattern(name) ==
    \E p \in {"get", "set", "is", "has", "can", "should", "will", "did", "on",
              "before", "after",
              "create", "update", "delete", "find", "fetch", "load", "save",
              "store",
              "handle", "process", "execute", "perform", "run", "start", "stop",
              "init", "setup", "configure", "validate", "transform", "convert",
              "add", "remove", "clear", "reset", "enable", "disable"} :
        StartsWith(ToLower(name), p)

\* ConfidenceCalculator._naming_convention_mismatch
naming_convention_mismatch(name, lang) ==
    \/ /\ lang \in {"PYTHON", "RUST", "GO"}
       /\ LET i == SkipWhile(name, 1, LowerCh)
          IN  i > 1 /\ i <= Len(name) /\ Ch(name, i) \in UpperCh
    \/ /\ lang \in {"PHP", "JAVASCRIPT", "TYPESCRIPT", "CSHARP"}
       /\ Contains(name, "_")
       /\ ~StartsWith(name, "_")

\* the lower and the upper limit of a confidence, 0.1 and 1.0
MinConfidence == 100

MaxConfidence == 1000

\* calculate if its eight conditions were an if/elif chain: only the first
\* adjustment that applies is made
calculate_first_adjustment(name, lang, file_content, has_similar, similar_names) ==
    LET confidence ==
            IF is_common_external(name) THEN 700
            ELSE IF Analysis[file_content][lang].imports THEN 850
            ELSE IF Analysis[file_content][lang].dynamic THEN 750
            ELSE IF has_similar THEN 1100
            ELSE IF Len(name) <= 3 THEN 800
            ELSE IF looks_like_external(name, lang) THEN 800
            ELSE IF is_common_pattern(name) THEN 850
            ELSE IF naming_convention_mismatch(name, lang) THEN 900
            ELSE 1000
    IN  Max2(MinConfidence, Min2(MaxConfidence, confidence))

\* ConfidenceCalculator.calculate; similar_names is not read
calculate(name, lang, file_content, has_similar, similar_names) ==
    LET confidence ==
            1000
            - (IF is_common_external(name) THEN 300 ELSE 0)
            - (IF Analysis[file_content][lang].imports THEN 150 ELSE 0)
            - (IF Analysis[file_content][lang].dynamic THEN 250 ELSE 0)
            + (IF has_similar THEN 100 ELSE 0)
            - (IF Len(name) <= 3 THEN 200 ELSE 0)
            - (IF looks_like_external(name, lang) THEN 200 ELSE 0)
            - (IF is_common_pattern(name) THEN 150 ELSE 0)
            - (IF naming_convention_mismatch(name, lang) THEN 100 ELSE 0)
    IN  Max2(MinConfidence, Min2(MaxConfidence, confidence))

(***************************************************************************)
(* difflib.SequenceMatcher(None, a, b).ratio(), as _find_similar uses it   *)
(***************************************************************************)
\* the longest block that a and b share: of the longest ones the one that
\* starts first in a, and of those the one that starts first in b
\* (find_longest_match; no character is junk in strings this short)
LongestMatch(a, b) ==
    LET Blocks == {<<i, j, k>> \in (1..Len(a)) \X (1..Len(b)) \X (1..Len(a)) :
                      /\ i + k - 1 <= Len(a)
                      /\ j + k - 1 <= Len(b)
                      /\ SubSeq(a, i, i + k - 1) = SubSeq(b, j, j + k - 1)}
    IN  IF Blocks = {} THEN <<0, 0, 0>>
        ELSE CHOOSE m \in Blocks :
                \A o \in Blocks :
                    \/ m[3] > o[3]
                    \/ m[3] = o[3] /\ m[1] < o[1]
                    \/ m[3] = o[3] /\ m[1] = o[1] /\ m[2] <= o[2]

\* the total size of the matching blocks (get_matching_blocks)
RECURSIVE MatchingSize(_, _)
MatchingSize(a, b) ==
    IF Len(a) = 0 \/ Len(b) = 0 THEN 0
    ELSE LET m == LongestMatch(a, b)
         IN  IF m[3] = 0 THEN 0
             ELSE m[3]
                  + MatchingSize(SubSeq(a, 1, m[1] - 1), SubSeq(b, 1, m[2] - 1))
                  + MatchingSize(From(a, m[1] + m[3]), From(b, m[2] + m[3]))

\* ratio() >= 0.6, that is 2.0 * M / T >= 0.6 with T = len(a) + len(b)
SimilarEnough(a, b) ==
    IF Len(a) + Len(b) = 0 THEN TRUE
    ELSE 10 * MatchingSize(a, b) >= 3 * (Len(a) + Len(b))

(***************************************************************************)
(* symbol_validator.py: data classes                                       *)
(***************************************************************************)
\* SymbolValidationMode: the members, and the value of each
SymbolValidationMode == {"OFF", "WARN", "STRICT", "ADAPTIVE"}

ModeValue(m) ==
    CASE m = "OFF" -> "off"
      [] m = "WARN" -> "warn"
      [] m = "STRICT" -> "strict"
      [] m = "ADAPTIVE" -> "adaptive"

\* SymbolIssue; suggestions is modelled as the set of the similar names
\* (their order among equal ratios is the iteration order of a Python set)
SymbolIssue(name, file, line, confidence, context, suggestions, reason) ==
    [name |-> name, file |-> file, line |-> line, confidence |-> confidence,
     match_type |-> "call", context |-> context, suggestions |-> suggestions,
     reason |-> reason]

\* SymbolIssue.severity
severity(issue) ==
    IF issue.confidence > 800 THEN "HIGH"
    ELSE IF issue.confidence > 500 THEN "MEDIUM"
    ELSE "LOW"

\* ValidationResult
ValidationResult(issues, confidence, should_block) ==
    [issues |-> issues, confidence |-> confidence, should_block |-> should_block]

\* max((i.confidence for i in issues), default=0.0)
MaxConfidenceOf(issues) ==
    IF Len(issues) = 0 THEN 0
    ELSE CHOOSE c \in {issues[k].confidence : k \in DOMAIN issues} :
            \A k \in DOMAIN issues : issues[k].confidence <= c

\* len([i for i in issues if i.confidence > c])
CountAbove(issues, c) == Cardinality({k \in DOMAIN issues : issues[k].confidence > c})

\* lines[line - 1].strip() if 0 < line <= len(lines) else ""
ContextLine(content, line) ==
    LET lines == Split(content)
    IN  IF 0 < line /\ line <= Len(lines) THEN Strip(lines[line]) ELSE ""

(***************************************************************************)
(* symbol_validator.py: SymbolValidator, the instance methods.  The caches *)
(* of the instance are passed in and handed back.                          *)
(***************************************************************************)
\* Path.is_absolute
is_absolute(p) == StartsWith(p, "/")

\* self.working_dir / path
Resolve(file_path) ==
    IF is_absolute(file_path) THEN file_path ELSE working_dir \o "/" \o file_path

\* path.is_relative_to(self.working_dir)
is_relative_to(p) == StartsWith(p, working_dir \o "/")

\* str(path.relative_to(self.working_dir)) if it is relative to it, else path
relative_to(p) ==
    IF is_relative_to(p) THEN From(p, Len(working_dir) + 2) ELSE p

\* Path.parts of an absolute path, without the root
parts(p) ==
    LET RECURSIVE SplitSlash(_)
        SplitSlash(s) ==
            IF \E i \in 1..Len(s) : Ch(s, i) = "/"
            THEN LET i == CHOOSE i \in 1..Len(s) :
                            /\ Ch(s, i) = "/"
                            /\ \A j \in 1..(i - 1) : Ch(s, j) # "/"
                 IN  {SubSeq(s, 1, i - 1)} \cup SplitSlash(From(s, i + 1))
            ELSE {s}
    IN  SplitSlash(p) \ {""}

\* SymbolValidator._should_skip_path
should_skip_path(path) ==
    LET skip_dirs == {"node_modules", "vendor", ".git", "__pycache__", ".venv",
                      "venv", "env", ".env", "dist", "build", "target", "bin",
                      "obj", ".idea", ".vscode", "coverage", ".pytest_cache",
                      ".mypy_cache", ".tox"}
    IN  parts(path) \cap skip_dirs # {}

\* SymbolValidator.__init__: the instance
SymbolValidator(session_symbols, whitelist) ==
    [session_symbols |-> session_symbols, whitelist |-> whitelist,
     definition_cache |-> <<>>, file_cache |-> <<>>]

\* f with the value v at the key k
Put(f, k, v) == [x \in DOMAIN f \cup {k} |-> IF x = k THEN v ELSE f[x]]

\* _read_file if it read the file again at every call
read_file_uncached(self, disk, key) ==
    IF key \in DOMAIN disk /\ disk[key].readable
    THEN [content |-> disk[key].text,
          self |-> [self EXCEPT
                       !.file_cache = Put(self.file_cache, key, disk[key].text)]]
    ELSE [content |-> "", self |-> self]

\* SymbolValidator._read_file: the content and the instance afterwards; a
\* file that cannot be read gives "" and is not cached
read_file(self, disk, key) ==
    IF key \in DOMAIN self.file_cache
    THEN [content |-> self.file_cache[key], self |-> self]
    ELSE IF key \in DOMAIN disk /\ disk[key].readable
    THEN [content |-> disk[key].text,
          self |-> [self EXCEPT
                       !.file_cache = Put(self.file_cache, key, disk[key].text)]]
    ELSE [content |-> "", self |-> self]

\* self.working_dir.rglob('*' + ext)
rglob(disk, ext) ==
    {p \in DOMAIN disk :
        /\ is_relative_to(p)
        /\ Len(p) >= Len(ext)
        /\ From(p, Len(p) - Len(ext) + 1) = ext}

\* the files of the scan are read one after the other
RECURSIVE ScanFiles(_, _, _, _, _)
ScanFiles(self, disk, files, lang, definitions) ==
    IF files = {} THEN [definitions |-> definitions, self |-> self]
    ELSE LET file_path == CHOOSE f \in files : TRUE
             file == read_file(self, disk, file_path)
             file_defs == IF file.content # ""
                          THEN Analysis[file.content][lang].definitions
                          ELSE {}
         IN  ScanFiles(file.self, disk, files \ {file_path}, lang,
                       definitions \cup file_defs)

\* _get_all_definitions if it did not scan the project
get_cached_definitions(self, disk, lang) ==
    [definitions |-> IF lang \in DOMAIN self.definition_cache
                     THEN self.definition_cache[lang] ELSE {},
     self |-> self]

\* SymbolValidator._get_all_definitions: the definitions and the instance
\* afterwards
get_all_definitions(self, disk, lang) ==
    IF lang \in DOMAIN self.definition_cache
    THEN [definitions |-> self.definition_cache[lang], self |-> self]
    ELSE LET extensions == {e \in DOMAIN EXTENSION_MAP : EXTENSION_MAP[e] = lang}
             files == {p \in UNION {rglob(disk, e) : e \in extensions} :
                          ~should_skip_path(p)}
             scan == ScanFiles(self, disk, files, lang, {})
         IN  [definitions |-> scan.definitions,
              self |-> [scan.self EXCEPT
                           !.definition_cache =
                               Put(self.definition_cache, lang, scan.definitions)]]

\* SymbolValidator._find_similar: the defined names whose ratio to the name
\* is at least 0.6
find_similar(name, definitions) ==
    {defined \in definitions : SimilarEnough(ToLower(name), ToLower(defined))}

\* the reason of a finding that has no similar name
NotFound == "Symbol not found in codebase"

\* _check_symbol if it skipped the common external names as validate does
check_symbol_skipping_external(self, name, line, file_path, lang, content, all_definitions, local_definitions) ==
    IF is_builtin(name, lang) \/ is_common_external(name) THEN <<>>
    ELSE IF name \in self.whitelist \cup self.session_symbols THEN <<>>
    ELSE IF name \in local_definitions \cup all_definitions THEN <<>>
    ELSE <<SymbolIssue(name, file_path, line,
                       calculate(name, lang, content,
                                 find_similar(name, all_definitions) # {},
                                 find_similar(name, all_definitions)),
                       ContextLine(content, line),
                       find_similar(name, all_definitions),
                       IF find_similar(name, all_definitions) # {}
                       THEN "Possibly misspelled" ELSE NotFound)>>

\* SymbolValidator._check_symbol: the issue, or no issue (the empty sequence)
check_symbol(self, name, line, file_path, lang, content, all_definitions, local_definitions) ==
    IF is_builtin(name, lang) THEN <<>>
    ELSE IF name \in self.whitelist THEN <<>>
    ELSE IF name \in self.session_symbols THEN <<>>
    ELSE IF name \in local_definitions THEN <<>>
    ELSE IF name \in all_definitions THEN <<>>
    ELSE LET similar_names == find_similar(name, all_definitions)
             has_similar == similar_names # {}
             confidence == calculate(name, lang, content, has_similar, similar_names)
         IN  <<SymbolIssue(name, file_path, line, confidence,
                           ContextLine(content, line), similar_names,
                           IF has_similar THEN "Possibly misspelled" ELSE NotFound)>>

\* the issues of the calls from the k-th on
RECURSIVE CheckCalls(_, _, _, _, _, _, _, _)
CheckCalls(self, calls, k, file_path, lang, content, all_definitions, local_definitions) ==
    IF k > Len(calls) THEN <<>>
    ELSE check_symbol(self, calls[k].name, calls[k].line, file_path, lang,
                      content, all_definitions, local_definitions)
         \o CheckCalls(self, calls, k + 1, file_path, lang, content,
                       all_definitions, local_definitions)

\* validate_file if it collected the definitions of the project before it
\* looked at the content of the file
validate_file_scanning_first(self, disk, file_path) ==
    [issues |-> <<>>,
     self |-> get_all_definitions(self, disk,
                                  IF detect_language(Resolve(file_path)) = NoLanguage
                                  THEN "PYTHON"
                                  ELSE detect_language(Resolve(file_path))).self]

\* validate_file from the definitions of the project on: the loop over the
\* calls of the content
ValidateFileCalls(self, path, lang, content, all) ==
    [issues |-> CheckCalls(self, Analysis[content][lang].calls, 1,
                           relative_to(path), lang, content, all.definitions,
                           Analysis[content][lang].definitions),
     self |-> all.self]

\* validate_file from the content of the file on; file is what _read_file
\* returned
ValidateFileContent(self, disk, path, lang, file) ==
    IF file.content = "" THEN [issues |-> <<>>, self |-> file.self]
    ELSE ValidateFileCalls(self, path, lang, file.content,
                           get_all_definitions(file.self, disk, lang))

\* SymbolValidator.validate_file: the issues and the instance afterwards
validate_file(self, disk, file_path) ==
    IF Resolve(file_path) \notin DOMAIN disk THEN [issues |-> <<>>, self |-> self]
    ELSE IF detect_language(Resolve(file_path)) = NoLanguage
    THEN [issues |-> <<>>, self |-> self]
    ELSE ValidateFileContent(self, disk, Resolve(file_path),
                             detect_language(Resolve(file_path)),
                             read_file(self, disk, Resolve(file_path)))

(***************************************************************************)
(* symbol_validator.py: SymbolValidator, the class-level interface.  The   *)
(* class attribute _global_mode is passed in as mode.                      *)
(***************************************************************************)
\* the loop of validate if no call were skipped
ValidateCallsUnfiltered(calls, k, code, file_path, lang, all_known) ==
    [i \in 1..(Len(calls) - k + 1) |->
        SymbolIssue(calls[i + k - 1].name, file_path, calls[i + k - 1].line,
                    calculate(calls[i + k - 1].name, lang, code, FALSE, <<>>),
                    ContextLine(code, calls[i + k - 1].line), {}, NotFound)]

\* the confidence if validate left it as calculate returned it
Unhalved(confidence, has_dynamic) == confidence

\* confidence *= 0.5 if the code has a dynamic pattern
Halved(confidence, has_dynamic) ==
    IF has_dynamic THEN confidence \div 2 ELSE confidence

\* the loop of validate over the calls from the k-th on
RECURSIVE ValidateCalls(_, _, _, _, _, _)
ValidateCalls(calls, k, code, file_path, lang, all_known) ==
    IF k > Len(calls) THEN <<>>
    ELSE IF is_builtin(calls[k].name, lang)
    THEN ValidateCalls(calls, k + 1, code, file_path, lang, all_known)
    ELSE IF calls[k].name \in all_known
    THEN ValidateCalls(calls, k + 1, code, file_path, lang, all_known)
    ELSE IF is_common_external(calls[k].name)
    THEN ValidateCalls(calls, k + 1, code, file_path, lang, all_known)
    ELSE <<SymbolIssue(calls[k].name, file_path, calls[k].line,
                       Halved(calculate(calls[k].name, lang, code, FALSE, <<>>),
                              Analysis[code][lang].dynamic),
                       ContextLine(code, calls[k].line), {}, NotFound)>>
         \o ValidateCalls(calls, k + 1, code, file_path, lang, all_known)

\* the issues of validate for a code of the language lang
IssuesOf(code, file_path, lang, known_symbols, facts) ==
    ValidateCalls(facts.calls, 1, code, file_path, lang,
                  known_symbols \cup facts.definitions)

\* the ValidationResult of validate for the issues, which block in the modes
\* blocking
ResultOf(blocking, mode, issues) ==
    ValidationResult(issues, MaxConfidenceOf(issues),
                     /\ mode \in blocking
                     /\ MaxConfidenceOf(issues) > 900
                     /\ CountAbove(issues, 800) >= 5)

\* validate for a file of the language lang
ValidateLang(blocking, mode, code, file_path, lang, known_symbols) ==
    IF lang = NoLanguage
    THEN [result |-> ValidationResult(<<>>, 0, FALSE), extracted |-> FALSE]
    ELSE [result |-> ResultOf(blocking, mode,
                              IssuesOf(code, file_path, lang, known_symbols,
                                       Analysis[code][lang])),
          extracted |-> TRUE]

\* validate if it did not look at the mode first
validate_not_checking_off(mode, code, file_path, known_symbols) ==
    ValidateLang({"STRICT"}, mode, code, file_path, detect_language(file_path),
                 known_symbols)

\* validate if ADAPTIVE blocked as STRICT does
validate_blocking_in_adaptive(mode, code, file_path, known_symbols) ==
    IF mode = "OFF"
    THEN [result |-> ValidationResult(<<>>, 0, FALSE), extracted |-> FALSE]
    ELSE ValidateLang({"STRICT", "ADAPTIVE"}, mode, code, file_path,
                      detect_language(file_path), known_symbols)

\* SymbolValidator.validate: the ValidationResult, and whether the extractor
\* was run on the code
validate(mode, code, file_path, known_symbols) ==
    IF mode = "OFF"
    THEN [result |-> ValidationResult(<<>>, 0, FALSE), extracted |-> FALSE]
    ELSE ValidateLang({"STRICT"}, mode, code, file_path,
                      detect_language(file_path), known_symbols)

(***************************************************************************)
(* symbol_validator.py: AdaptiveSymbolValidation                           *)
(***************************************************************************)
\* SYMBOL_RELAXED_PATTERNS: each is a literal text, searched for in any case
SYMBOL_RELAXED_PATTERNS ==
    {"/test", "/tests", "Test.", "Spec.", "/config", "/migrations", "/seeds",
     ".config.", ".env"}

\* re.search(pattern, file, re.IGNORECASE) for one of the relaxed patterns
IsRelaxed(file) ==
    \E pattern \in SYMBOL_RELAXED_PATTERNS :
        Contains(ToLower(file), ToLower(pattern))

\* get_mode_for_file if the paths of SYMBOL_STRICT_PATTERNS were made STRICT
get_mode_for_file_escalating(file, strict_files, ignore_files) ==
    IF file \in strict_files THEN "STRICT"
    ELSE IF file \in ignore_files THEN "OFF"
    ELSE IF \E pattern \in {"Controller.", "Service.", "Repository.", "Api/",
                            "Handler.", "Middleware.", "UseCase.", "Command.",
                            "Query."} :
               Contains(ToLower(file), ToLower(pattern))
    THEN "STRICT"
    ELSE "WARN"

\* AdaptiveSymbolValidation.get_mode_for_file
get_mode_for_file(file, strict_files, ignore_files) ==
    IF file \in strict_files THEN "STRICT"
    ELSE IF file \in ignore_files THEN "OFF"
    ELSE IF IsRelaxed(file) THEN "WARN"
    ELSE "WARN"

\* should_block if it did not look at the mode
should_block_in_any_mode(issues, mode) == CountAbove(issues, 900) >= 5

\* should_block if a confidence of 0.9 counted
should_block_from_0_9(issues, mode) ==
    mode = "STRICT" /\ CountAbove(issues, 899) >= 5

\* AdaptiveSymbolValidation.should_block
should_block(issues, mode) ==
    IF mode \in {"OFF", "WARN", "ADAPTIVE"} THEN FALSE
    ELSE IF mode = "STRICT" THEN CountAbove(issues, 900) >= 5
    ELSE FALSE

\* user_mode = None
NoMode == "NONE"

\* get_effective_mode if the strictest mode of the files won
get_effective_mode_strictest_wins(files, user_mode, strict_files, ignore_files) ==
    IF user_mode = "STRICT" THEN "STRICT"
    ELSE IF user_mode = "OFF" THEN "OFF"
    ELSE IF \E k \in DOMAIN files :
               get_mode_for_file(files[k], strict_files, ignore_files) = "STRICT"
    THEN "STRICT"
    ELSE "WARN"

\* AdaptiveSymbolValidation.get_effective_mode
get_effective_mode(files, user_mode, strict_files, ignore_files) ==
    LET modes == [k \in DOMAIN files |->
                     get_mode_for_file(files[k], strict_files, ignore_files)]
    IN  IF user_mode = "STRICT" THEN "STRICT"
        ELSE IF user_mode = "OFF" THEN "OFF"
        ELSE IF (\A k \in DOMAIN modes : modes[k] = "STRICT") /\ Len(modes) > 0
        THEN "STRICT"
        ELSE "WARN"

(***************************************************************************)
(* handlers.py: chainguard_symbol_mode                                     *)
(***************************************************************************)
\* handle_symbol_mode if a mode it does not know made it fall back to WARN
handle_symbol_mode_falling_back(mode, arg) ==
    IF arg = "" THEN [mode |-> mode, reply |-> "current", shown |-> ModeValue(mode)]
    ELSE IF \E m \in SymbolValidationMode : ModeValue(m) = ToLower(arg)
    THEN [mode |-> CHOOSE m \in SymbolValidationMode : ModeValue(m) = ToLower(arg),
          reply |-> "set", shown |-> ToLower(arg)]
    ELSE [mode |-> "WARN", reply |-> "invalid", shown |-> arg]

\* handle_symbol_mode: the mode afterwards and the reply.  An argument that
\* is missing is "" here: both are false in "if mode:"
handle_symbol_mode(mode, arg) ==
    IF arg # ""
    THEN IF \E m \in SymbolValidationMode : ModeValue(m) = ToLower(arg)
         THEN LET new_mode == CHOOSE m \in SymbolValidationMode :
                                  ModeValue(m) = ToLower(arg)
              IN  [mode |-> new_mode, reply |-> "set", shown |-> ModeValue(new_mode)]
         ELSE [mode |-> mode, reply |-> "invalid", shown |-> arg]
    ELSE [mode |-> mode, reply |-> "current", shown |-> ModeValue(mode)]

(***************************************************************************)
(* The arguments of the calls                                              *)
(***************************************************************************)
\* the codes under review
Codes == Texts(BlockLines, MaxLines) \cup Picks(RichLines, 1, MaxRich)

\* the longest code under review where every operation is called
MaxSmall == 2

\* the codes under review where every operation is called
SmallCodes == Texts(BlockLines, MaxSmall)

\* the file_path arguments of validate
ValidatePaths == {"a.py", "a.php", "inline.txt"}

\* the known_symbols arguments of validate
KnownSymbols == {{}, {"helper"}}

\* the file_path arguments of validate_file
FilePaths == {"a.py", "/srv/app/a.py", "b.php", "bad.py", "missing.py", "notes.txt"}

\* the session_symbols of a validator
SessionSymbols == {{}, {"zork"}}

\* the whitelists of a validator
Whitelists == {{}, {"myFn"}}

\* the mode arguments of chainguard_symbol_mode
ModeArgs == {"", "strict", "OFF", "Warn", "adaptive", "loud", "stric"}

\* the file arguments of get_mode_for_file
Files ==
    {"tests/UserTest.php", "src/UserController.php", "config/database.php",
     "app/.env.local", "lib/Parser.py"}

\* the strict_files and the ignore_files
FileSets ==
    {{}, {"tests/UserTest.php"}, {"tests/UserTest.php", "src/UserController.php"}}

\* the longest list of files of get_effective_mode
MaxFiles == 2

\* the lists of files of get_effective_mode
FileLists ==
    UNION {[1..n -> {"tests/UserTest.php", "src/UserController.php"}] : n \in 0..MaxFiles}

\* validate, worked out once for each of its arguments
ValidateTable ==
    [m \in SymbolValidationMode, c \in Codes, p \in ValidatePaths, k \in KnownSymbols |->
        validate(m, c, p, k)]

\* validate_file of a new validator, worked out once for each of its arguments
ValidateFileTable ==
    [c \in Codes, p \in FilePaths, s \in SessionSymbols, w \in Whitelists |->
        validate_file(SymbolValidator(s, w), Disk(c), p)]

\* get_mode_for_file, worked out once for each of its arguments
ModeForFileTable ==
    [f \in Files, s \in FileSets, i \in FileSets |-> get_mode_for_file(f, s, i)]

\* the user_mode arguments of get_effective_mode
UserModes == SymbolValidationMode \cup {NoMode}

\* get_effective_mode, worked out once for each of its arguments
EffectiveModeTable ==
    [l \in FileLists, u \in UserModes, s \in FileSets, i \in FileSets |->
        get_effective_mode(l, u, s, i)]

\* the arguments of the calls where every operation is called
FewFiles == {"tests/UserTest.php"}

FewFileSets == SUBSET FewFiles

FewFileLists == {<<>>, <<"tests/UserTest.php">>}

(***************************************************************************)
(* The state: the mode of the class, the code under review, and the call   *)
(* made last with what it returned                                         *)
(***************************************************************************)
\* the source lines that the extractor is given: the delimiters of a
\* comment block and of a docstring, comment lines, a definition, calls, and
\* calls in string literals and in interpolated strings
ExtractLines ==
    <<"/*", "\"\"\"", "# def old(x):", "// function old(x) {", "def old(x):",
      "zork(x)", "Run(zork(x))", "a.zork(zork(x))", "a.$emit(x); done(y)",
      "Get<T>(zork(x))",
      "t = \"Max zork (optional)\"", "t = \"a {b} zork(x)\"",
      "s = f\"{zork(x)}\" + \"b\"", "s = $\"{zork(x)}\"", "s = ^${zork(x)}^",
      "s = $\"it's {zork(x)} isn't\"">>

\* the most lines of a source that the extractor is given
MaxExtract == 2

\* the sources that the extractor is given
ExtractTexts == {""} \cup Picks(ExtractLines, 1, MaxExtract)

\* extract_calls, worked out once for each of its arguments
ExtractedCalls ==
    [c \in ExtractTexts |-> [l \in DOMAIN CALL_PATTERNS |-> extract_calls(c, l)]]

\* extract_definitions, worked out once for each of its arguments
ExtractedDefinitions ==
    [c \in ExtractTexts |-> [l \in ModelledLanguages |-> extract_definitions(c, l)]]

(***************************************************************************)
(* handlers.py: _get_project_symbols and its cache.  The two dictionaries  *)
(* of the module and the time are passed in; times are whole seconds.      *)
(***************************************************************************)
\* the seconds for which an entry of the cache is returned
SYMBOL_CACHE_TTL == 300

\* f"{project_path}:{lang.value}"
cache_key(project_path, lang) == project_path \o ":" \o ToLower(lang)

\* the scan of _get_project_symbols: the definitions of the files under the
\* project path that have an extension of the language and none of the
\* skipped words in their path; a file that cannot be read is passed over
project_symbols(disk, project_path, lang) ==
    UNION {Analysis[disk[p].text][lang].definitions :
             p \in {f \in DOMAIN disk :
                      /\ StartsWith(f, project_path \o "/")
                      /\ \E e \in DOMAIN EXTENSION_MAP :
                            /\ EXTENSION_MAP[e] = lang
                            /\ Len(f) >= Len(e)
                            /\ From(f, Len(f) - Len(e) + 1) = e
                      /\ \A skip \in {"node_modules", "vendor", ".git",
                                      "__pycache__", "dist", "build"} :
                            ~Contains(f, skip)
                      /\ disk[f].readable}}

\* _get_project_symbols if it returned an entry that is exactly as old as the
\* time to live
get_project_symbols_at_ttl(cache, cache_time, disk, project_path, lang, now) ==
    IF /\ cache_key(project_path, lang) \in DOMAIN cache
       /\ now - cache_time[cache_key(project_path, lang)] <= SYMBOL_CACHE_TTL
    THEN [symbols |-> cache[cache_key(project_path, lang)], cache |-> cache,
          cache_time |-> cache_time, scanned |-> FALSE]
    ELSE [symbols |-> project_symbols(disk, project_path, lang),
          cache |-> Put(cache, cache_key(project_path, lang),
                        project_symbols(disk, project_path, lang)),
          cache_time |-> Put(cache_time, cache_key(project_path, lang), now),
          scanned |-> TRUE]

\* _get_project_symbols at the time now: the set it returns, the two
\* dictionaries afterwards, and whether it scanned the project
get_project_symbols(cache, cache_time, disk, project_path, lang, now) ==
    IF /\ cache_key(project_path, lang) \in DOMAIN cache
       /\ now - (IF cache_key(project_path, lang) \in DOMAIN cache_time
                 THEN cache_time[cache_key(project_path, lang)] ELSE 0)
            < SYMBOL_CACHE_TTL
    THEN [symbols |-> cache[cache_key(project_path, lang)], cache |-> cache,
          cache_time |-> cache_time, scanned |-> FALSE]
    ELSE [symbols |-> project_symbols(disk, project_path, lang),
          cache |-> Put(cache, cache_key(project_path, lang),
                        project_symbols(disk, project_path, lang)),
          cache_time |-> Put(cache_time, cache_key(project_path, lang), now),
          scanned |-> TRUE]

\* the project_path arguments of _get_project_symbols
ProjectPaths == {"/srv/app", "/srv/app/vendor"}

\* the codes under review while the cache is used
CacheCodes == {"def known():"}

\* the seconds that pass between two calls, and the last second
Ticks == {149, 150}

MaxClock == 300

(***************************************************************************)
(* symbol_validator.py: AsyncSymbolValidator.  validate_files_async runs   *)
(* validate_file for every file in a worker thread of its own; the threads *)
(* share the instance and its caches, and no lock is taken.  A thread is   *)
(* the record of its file and of the local variables of validate_file.     *)
(***************************************************************************)
\* a worker thread of asyncio.to_thread(self.validate_file, fp) that has not
\* run yet
NewThread(file_path) ==
    [file_path |-> file_path, pc |-> "start", lang |-> NoLanguage,
     content |-> "", definitions |-> {}, scanned |-> FALSE, issues |-> <<>>]

\* the files of the scan of _get_all_definitions
ScannedFiles(disk, lang) ==
    {p \in UNION {rglob(disk, e) :
                    e \in {x \in DOMAIN EXTENSION_MAP : EXTENSION_MAP[x] = lang}} :
        ~should_skip_path(p)}

\* the most files of one call of validate_files_async
MaxThreads == 2

\* the files a call of validate_files_async validates
ThreadFiles == {"b.php", "lib.php", "lib.py", "bad.py", "notes.txt"}

\* the file_paths arguments of validate_files_async
FileBatches == UNION {[1..n -> ThreadFiles] : n \in 1..MaxThreads}

\* issues.extend(result) for the results from the k-th on
RECURSIVE Gathered(_, _)
Gathered(results, k) ==
    IF k > Len(results) THEN <<>>
    ELSE results[k].issues \o Gathered(results, k + 1)

(***************************************************************************)
(* symbol_patterns.py: PHPBuiltinsLoader and is_builtin with its lazy      *)
(* load.  The flag _loaded, the set BUILTINS[Language.PHP] and the file    *)
(* data/php_builtins.json are passed in.  The file is missing, or is not   *)
(* JSON, or is JSON that is no object, or is an object with the names of   *)
(* its symbols.                                                            *)
(***************************************************************************)
\* PHPBuiltinsLoader.load if a file that cannot be used left _loaded as it is
load_retrying(loaded, builtins, asset) ==
    IF loaded THEN [loaded |-> TRUE, builtins |-> builtins, read |-> FALSE]
    ELSE IF asset.kind = "missing"
    THEN [loaded |-> FALSE, builtins |-> builtins, read |-> FALSE]
    ELSE IF asset.kind = "symbols"
    THEN [loaded |-> TRUE, builtins |-> builtins \cup asset.names, read |-> TRUE]
    ELSE [loaded |-> FALSE, builtins |-> builtins, read |-> TRUE]

\* PHPBuiltinsLoader.load: _loaded and BUILTINS[Language.PHP] afterwards, and
\* whether the file was opened.  json.load of a file that is not JSON raises
\* JSONDecodeError and data.get of JSON that is no object raises
\* AttributeError; both are caught, and the finally clause sets _loaded
load(loaded, builtins, asset) ==
    IF loaded THEN [loaded |-> TRUE, builtins |-> builtins, read |-> FALSE]
    ELSE IF asset.kind = "missing"
    THEN [loaded |-> TRUE, builtins |-> builtins, read |-> FALSE]
    ELSE IF asset.kind = "symbols"
    THEN [loaded |-> TRUE, builtins |-> builtins \cup asset.names, read |-> TRUE]
    ELSE [loaded |-> TRUE, builtins |-> builtins, read |-> TRUE]

\* is_builtin with the state of the loader: what it returns, the state
\* afterwards and whether the file was opened
is_builtin_loading(name, lang, loaded, builtins, asset) ==
    IF lang = "PHP"
    THEN [result |-> ToLower(name) \in load(loaded, builtins, asset).builtins,
          loaded |-> load(loaded, builtins, asset).loaded,
          builtins |-> load(loaded, builtins, asset).builtins,
          read |-> load(loaded, builtins, asset).read]
    ELSE [result |-> name \in BUILTINS[lang], loaded |-> loaded,
          builtins |-> builtins, read |-> FALSE]

\* the states of the file data/php_builtins.json
Assets ==
    {[kind |-> "missing"], [kind |-> "malformed"], [kind |-> "no object"],
     [kind |-> "symbols", names |-> {"array_walk", "PDO"}],
     [kind |-> "symbols", names |-> {"zork"}]}

\* the file_path arguments of validate_file on a validator that is kept
InstancePaths == {"a.py", "c.py", "bad.py", "missing.py", "notes.txt", "b.php"}

\* the codes under review while a validator is kept
InstanceCodes == {"zork(x)", "def known():", "def known():\nzork(x)"}

\* the arguments of ConfidenceCalculator.calculate: names that meet the
\* conditions on a name one by one and together, a file content without and
\* with many imports and dynamic patterns, and lists of similar names
CalcNames ==
    {"zork", "foo", "count", "map", "get", "save", "findById", "Async",
     "getUser", "isA", "onX", "loadAsync", "my_fn", "get_all", "fetchRows"}

CalcLanguages == {"PYTHON", "PHP"}

CalcContents ==
    {"", "zork(x)", RichLines[1], RichLines[6], RichLines[1] \o "\n" \o RichLines[6]}

CalcSimilar == {<<>>, <<"helper", "known">>}

\* the lines of a Python source with triple-quoted blocks of both styles, and
\* the most lines of such a source
DocLines == {"\"\"\"", "'''", "zork(x)", "see ''' zork(x)", "'''doc'''"}

MaxDoc == 3

DocTexts == Texts(DocLines, MaxDoc)

(***************************************************************************)
(* handlers.py: chainguard_validate_symbols.  An argument that is missing  *)
(* is "" here: both are false in "if not file_path and not code".          *)
(***************************************************************************)
\* a reply of handle_validate_symbols that is an error message
ErrorReply(reply, cache, cache_time) ==
    [reply |-> reply, issues |-> <<>>, known_symbols |-> {}, cache |-> cache,
     cache_time |-> cache_time]

\* the reply of handle_validate_symbols for the result of validate
ReplyOf(lookup, result) ==
    [reply |-> IF result.issues = <<>> THEN "no issues" ELSE "issues",
     issues |-> result.issues, known_symbols |-> lookup.symbols,
     cache |-> lookup.cache, cache_time |-> lookup.cache_time]

\* handle_validate_symbols from the known symbols on: validate and the reply
ValidateReply(mode, code, file_path, lookup) ==
    ReplyOf(lookup, validate(mode, code, file_path, lookup.symbols).result)

\* handle_validate_symbols: the reply, the issues, the known symbols and the
\* two dictionaries of the cache afterwards
handle_validate_symbols(mode, cache, cache_time, disk, project_path, file, code, now) ==
    IF file = "" /\ code = "" THEN ErrorReply("required", cache, cache_time)
    ELSE IF file # "" /\ project_path \o "/" \o file \notin DOMAIN disk
    THEN ErrorReply("not found", cache, cache_time)
    ELSE IF file # "" /\ ~disk[project_path \o "/" \o file].readable
    THEN ErrorReply("cannot read", cache, cache_time)
    ELSE IF detect_language(IF file # "" THEN file ELSE "code.py") = NoLanguage
    THEN ErrorReply("no language", cache, cache_time)
    ELSE ValidateReply(mode,
                       IF file # "" THEN disk[project_path \o "/" \o file].text ELSE code,
                       IF file # "" THEN file ELSE "inline.txt",
                       get_project_symbols(cache, cache_time, disk, project_path,
                                           detect_language(IF file # "" THEN file
                                                           ELSE "code.py"),
                                           now))

\* the file arguments of chainguard_validate_symbols
HandleFiles == {"", "a.py", "c.py", "b.php", "bad.py", "missing.py", "notes.txt"}

\* SymbolValidator._global_mode; the text of the code under review; the last
\* call and what it returned; _symbol_cache and _symbol_cache_time of
\* handlers.py; time.time(); the AsyncSymbolValidator that the worker threads
\* share; the worker threads of validate_files_async
VARIABLES global_mode, written, last, symbol_cache, symbol_cache_time, clock, validator, threads

\* PHPBuiltinsLoader._loaded; BUILTINS[Language.PHP]; the file
\* data/php_builtins.json
VARIABLES php_loaded, php_builtins, php_asset

vars == <<global_mode, written, last, symbol_cache, symbol_cache_time, clock, validator, threads, php_loaded, php_builtins, php_asset>>

loaderVars == <<php_loaded, php_builtins, php_asset>>

\* the state of handlers.py and the state of the worker threads
cacheVars == <<symbol_cache, symbol_cache_time, clock>>

threadVars == <<validator, threads>>

Init ==
    /\ global_mode = "WARN"
    /\ written = ""
    /\ last = [op |-> "init"]
    /\ symbol_cache = <<>>
    /\ symbol_cache_time = <<>>
    /\ clock = 0
    /\ validator = SymbolValidator({}, {})
    /\ threads = <<>>
    /\ php_loaded = FALSE
    /\ php_builtins = BUILTINS["PHP"]
    /\ php_asset = [kind |-> "missing"]

\* one more line is written to the code under review
Edit(texts) ==
    \E l \in SeqToSet(RichLines) :
        /\ AppendLine(written, l) \in texts
        /\ written' = AppendLine(written, l)
        /\ last' = [op |-> "edit"]
        /\ UNCHANGED <<global_mode, cacheVars, threadVars, loaderVars>>

\* SymbolValidator.set_mode(m)
SetMode ==
    \E m \in SymbolValidationMode :
        /\ global_mode' = m
        /\ last' = [op |-> "set_mode", arg |-> m]
        /\ UNCHANGED <<written, cacheVars, threadVars, loaderVars>>

\* SymbolValidator.get_mode()
GetMode ==
    /\ last' = [op |-> "get_mode", result |-> global_mode]
    /\ UNCHANGED <<global_mode, written, cacheVars, threadVars, loaderVars>>

\* chainguard_symbol_mode
HandleSymbolMode ==
    \E arg \in ModeArgs :
        LET r == handle_symbol_mode(global_mode, arg)
        IN  /\ global_mode' = r.mode
            /\ last' = [op |-> "chainguard_symbol_mode", arg |-> arg,
                        reply |-> r.reply, shown |-> r.shown]
            /\ UNCHANGED <<written, cacheVars, threadVars, loaderVars>>

\* SymbolValidator.validate(written, file_path, known_symbols)
Validate ==
    \E file_path \in ValidatePaths, known_symbols \in KnownSymbols :
        LET r == ValidateTable[global_mode, written, file_path, known_symbols]
        IN  /\ last' = [op |-> "validate", mode |-> global_mode, code |-> written,
                        file_path |-> file_path, known_symbols |-> known_symbols,
                        result |-> r.result, issues |-> r.result.issues,
                        extracted |-> r.extracted]
            /\ UNCHANGED <<global_mode, written, cacheVars, threadVars, loaderVars>>

\* SymbolValidator(working_dir, session_symbols, whitelist).validate_file(file_path)
ValidateFile ==
    \E file_path \in FilePaths, session_symbols \in SessionSymbols, whitelist \in Whitelists :
        LET r == ValidateFileTable[written, file_path, session_symbols, whitelist]
        IN  /\ last' = [op |-> "validate_file", file_path |-> file_path,
                        session_symbols |-> session_symbols,
                        whitelist |-> whitelist, issues |-> r.issues]
            /\ UNCHANGED <<global_mode, written, cacheVars, threadVars, loaderVars>>

\* AdaptiveSymbolValidation().should_block(issues, m) for the issues that
\* validate or validate_file has just returned
ShouldBlock ==
    \E m \in SymbolValidationMode :
        /\ last.op \in {"validate", "validate_file"}
        /\ last' = [op |-> "should_block", issues |-> last.issues, mode |-> m,
                    result |-> should_block(last.issues, m)]
        /\ UNCHANGED <<global_mode, written, cacheVars, threadVars, loaderVars>>

\* AdaptiveSymbolValidation().get_mode_for_file(file, strict_files, ignore_files)
GetModeForFile(files, sets) ==
    \E file \in files, strict_files \in sets, ignore_files \in sets :
        /\ last' = [op |-> "get_mode_for_file", file |-> file,
                    strict_files |-> strict_files, ignore_files |-> ignore_files,
                    result |-> ModeForFileTable[file, strict_files, ignore_files]]
        /\ UNCHANGED <<global_mode, written, cacheVars, threadVars, loaderVars>>

\* AdaptiveSymbolValidation().get_effective_mode(files, user_mode,
\* strict_files, ignore_files)
GetEffectiveMode(lists, sets) ==
    \E files \in lists, user_mode \in UserModes, strict_files \in sets, ignore_files \in sets :
        /\ last' = [op |-> "get_effective_mode", files |-> files,
                    user_mode |-> user_mode, strict_files |-> strict_files,
                    ignore_files |-> ignore_files,
                    result |-> EffectiveModeTable[files, user_mode, strict_files,
                                                  ignore_files]]
        /\ UNCHANGED <<global_mode, written, cacheVars, threadVars, loaderVars>>

\* the static interface on a code under review that is written line by line
Next ==
    \/ Edit(Codes)
    \/ SetMode
    \/ Validate
    \/ ShouldBlock

Spec == Init /\ [][Next]_vars

\* the two entry points on a code under review
NextFile ==
    \/ Edit(Codes)
    \/ SetMode
    \/ Validate
    \/ ValidateFile

SpecFile == Init /\ [][NextFile]_vars

\* the mode of a file by its path
NextAdaptive ==
    \/ GetModeForFile(Files, FileSets)
    \/ GetEffectiveMode(FileLists, FileSets)

SpecAdaptive == Init /\ [][NextAdaptive]_vars

\* every operation, on a short code under review
NextMode ==
    \/ Edit(SmallCodes)
    \/ SetMode
    \/ GetMode
    \/ HandleSymbolMode
    \/ Validate
    \/ ValidateFile
    \/ ShouldBlock
    \/ GetModeForFile(FewFiles, FewFileSets)
    \/ GetEffectiveMode(FewFileLists, FewFileSets)

SpecMode == Init /\ [][NextMode]_vars

\* one more line is written to the source that the extractor is given
WriteSource ==
    \E l \in SeqToSet(ExtractLines) :
        /\ AppendLine(written, l) \in ExtractTexts
        /\ written' = AppendLine(written, l)
        /\ last' = [op |-> "write"]
        /\ UNCHANGED <<global_mode, cacheVars, threadVars, loaderVars>>

\* SymbolExtractor().extract_calls(written, lang)
ExtractCalls ==
    \E lang \in DOMAIN CALL_PATTERNS :
        /\ last' = [op |-> "extract_calls", content |-> written, lang |-> lang,
                    result |-> ExtractedCalls[written][lang]]
        /\ UNCHANGED <<global_mode, written, cacheVars, threadVars, loaderVars>>

\* SymbolExtractor().extract_definitions(written, lang)
ExtractDefinitions ==
    \E lang \in ModelledLanguages :
        /\ last' = [op |-> "extract_definitions", content |-> written,
                    lang |-> lang, result |-> ExtractedDefinitions[written][lang]]
        /\ UNCHANGED <<global_mode, written, cacheVars, threadVars, loaderVars>>

\* the extractor on a source that is written line by line
NextExtract ==
    \/ WriteSource
    \/ ExtractCalls
    \/ ExtractDefinitions

SpecExtract == Init /\ [][NextExtract]_vars

(***************************************************************************)
(* symbol_patterns.py: is_builtin, called with a name and a language        *)
(***************************************************************************)
\* the names is_builtin is asked about: members of the tables as they are
\* written there, the same names in other letter cases, and other names
BuiltinNames ==
    {"strlen", "STRLEN", "StrLen", "count", "COUNT", "print", "Print",
     "__call", "__CALL", "__toString", "__tostring", "__TOSTRING",
     "__callStatic", "__callstatic", "len", "LEN", "Exception", "exception",
     "__init__", "zork"}

\* is_builtin(name, lang)
IsBuiltin ==
    \E name \in BuiltinNames, lang \in Language :
        /\ last' = [op |-> "is_builtin", name |-> name, lang |-> lang,
                    result |-> is_builtin(name, lang)]
        /\ UNCHANGED <<global_mode, written, cacheVars, threadVars, loaderVars>>

SpecBuiltin == Init /\ [][IsBuiltin]_vars

(***************************************************************************)
(* handlers.py: the cache of the project symbols as time passes            *)
(***************************************************************************)
\* time passes
Tick ==
    \E d \in Ticks :
        /\ clock + d <= MaxClock
        /\ clock' = clock + d
        /\ UNCHANGED <<global_mode, written, last, symbol_cache, symbol_cache_time, threadVars, loaderVars>>

\* await _get_project_symbols(project_path, lang)
GetProjectSymbols ==
    \E project_path \in ProjectPaths, lang \in ModelledLanguages :
        LET r == get_project_symbols(symbol_cache, symbol_cache_time,
                                     Disk(written), project_path, lang, clock)
        IN  /\ symbol_cache' = r.cache
            /\ symbol_cache_time' = r.cache_time
            /\ last' = [op |-> "_get_project_symbols",
                        project_path |-> project_path, lang |-> lang,
                        now |-> clock, scanned |-> r.scanned,
                        result |-> r.symbols]
            /\ UNCHANGED <<global_mode, written, clock, threadVars, loaderVars>>

NextCache ==
    \/ Edit(CacheCodes)
    \/ Tick
    \/ GetProjectSymbols

SpecCache == Init /\ [][NextCache]_vars

(***************************************************************************)
(* symbol_validator.py: the worker threads of validate_files_async.  Every *)
(* action of a thread is a part of validate_file that the thread runs      *)
(* without another thread running in between; between two of these actions *)
(* any other thread may run.                                               *)
(***************************************************************************)
\* AsyncSymbolValidator(working_dir, session_symbols, whitelist)
NewValidator ==
    \E session_symbols \in SessionSymbols, whitelist \in Whitelists :
        /\ threads = <<>>
        /\ validator' = SymbolValidator(session_symbols, whitelist)
        /\ last' = [op |-> "AsyncSymbolValidator"]
        /\ UNCHANGED <<global_mode, written, cacheVars, threads, loaderVars>>

\* validate_files_async(file_paths) up to its await: the threads are made
ValidateFilesAsync ==
    \E file_paths \in FileBatches :
        /\ threads = <<>>
        /\ threads' = [i \in DOMAIN file_paths |-> NewThread(file_paths[i])]
        /\ last' = [op |-> "to_thread", file_paths |-> file_paths]
        /\ UNCHANGED <<global_mode, written, cacheVars, validator, loaderVars>>

\* validate_file up to the call of _get_all_definitions: the path, the
\* language and the content of the file
ThreadRead ==
    \E t \in DOMAIN threads :
        LET path == Resolve(threads[t].file_path)
            file == read_file(validator, Disk(written), path)
        IN  /\ threads[t].pc = "start"
            /\ IF \/ path \notin DOMAIN Disk(written)
                  \/ detect_language(path) = NoLanguage
               THEN /\ threads' = [threads EXCEPT ![t].pc = "done"]
                    /\ UNCHANGED validator
               ELSE /\ validator' = file.self
                    /\ threads' =
                          [threads EXCEPT
                              ![t].pc = IF file.content = "" THEN "done" ELSE "check",
                              ![t].lang = detect_language(path),
                              ![t].content = file.content]
            /\ UNCHANGED <<global_mode, written, last, cacheVars, loaderVars>>

\* _get_all_definitions: the look into the cache
ThreadCheck ==
    \E t \in DOMAIN threads :
        /\ threads[t].pc = "check"
        /\ threads' =
              IF threads[t].lang \in DOMAIN validator.definition_cache
              THEN [threads EXCEPT
                       ![t].pc = "calls",
                       ![t].definitions =
                           validator.definition_cache[threads[t].lang]]
              ELSE [threads EXCEPT ![t].pc = "scan"]
        /\ UNCHANGED <<global_mode, written, last, cacheVars, validator, loaderVars>>

\* _get_all_definitions: the scan of the project and the entry of the cache
ThreadScan ==
    \E t \in DOMAIN threads :
        LET scan == ScanFiles(validator, Disk(written),
                              ScannedFiles(Disk(written), threads[t].lang),
                              threads[t].lang, {})
        IN  /\ threads[t].pc = "scan"
            /\ validator' =
                  [scan.self EXCEPT
                      !.definition_cache =
                          Put(scan.self.definition_cache, threads[t].lang,
                              scan.definitions)]
            /\ threads' = [threads EXCEPT ![t].pc = "calls",
                                          ![t].definitions = scan.definitions,
                                          ![t].scanned = TRUE]
            /\ UNCHANGED <<global_mode, written, last, cacheVars, loaderVars>>

\* validate_file after the call of _get_all_definitions: the calls of the
\* file are checked
ThreadCalls ==
    \E t \in DOMAIN threads :
        /\ threads[t].pc = "calls"
        /\ threads' =
              [threads EXCEPT
                  ![t].pc = "done",
                  ![t].issues =
                      CheckCalls(validator,
                                 Analysis[threads[t].content][threads[t].lang].calls,
                                 1, relative_to(Resolve(threads[t].file_path)),
                                 threads[t].lang, threads[t].content,
                                 threads[t].definitions,
                                 Analysis[threads[t].content][threads[t].lang].definitions)]
        /\ UNCHANGED <<global_mode, written, last, cacheVars, validator, loaderVars>>

\* validate_files_async after its await: asyncio.gather has the results of
\* all threads
Gather ==
    /\ threads # <<>>
    /\ \A t \in DOMAIN threads : threads[t].pc = "done"
    /\ last' = [op |-> "validate_files_async",
                file_paths |-> [t \in DOMAIN threads |-> threads[t].file_path],
                issues |-> Gathered(threads, 1)]
    /\ threads' = <<>>
    /\ UNCHANGED <<global_mode, written, cacheVars, validator, loaderVars>>

NextThreads ==
    \/ NewValidator
    \/ ValidateFilesAsync
    \/ ThreadRead
    \/ ThreadCheck
    \/ ThreadScan
    \/ ThreadCalls
    \/ Gather

SpecThreads == Init /\ [][NextThreads]_vars

(***************************************************************************)
(* symbol_patterns.py: is_builtin and the loader of the PHP vocabulary     *)
(***************************************************************************)
\* the file data/php_builtins.json is written, replaced or removed
WriteAsset ==
    \E asset \in Assets :
        /\ php_asset' = asset
        /\ UNCHANGED <<global_mode, written, last, cacheVars, threadVars, php_loaded, php_builtins>>

\* is_builtin(name, lang)
IsBuiltinLoading ==
    \E name \in BuiltinNames, lang \in Language :
        LET r == is_builtin_loading(name, lang, php_loaded, php_builtins, php_asset)
        IN  /\ php_loaded' = r.loaded
            /\ php_builtins' = r.builtins
            /\ last' = [op |-> "is_builtin", name |-> name, lang |-> lang,
                        result |-> r.result, read |-> r.read]
            /\ UNCHANGED <<global_mode, written, cacheVars, threadVars, php_asset>>

\* PHPBuiltinsLoader.reset()
ResetLoader ==
    /\ php_loaded' = FALSE
    /\ last' = [op |-> "reset"]
    /\ UNCHANGED <<global_mode, written, cacheVars, threadVars, php_builtins, php_asset>>

NextLoader ==
    \/ WriteAsset
    \/ IsBuiltinLoading
    \/ ResetLoader

SpecLoader == Init /\ [][NextLoader]_vars

(***************************************************************************)
(* symbol_validator.py: a SymbolValidator that is kept while the files of  *)
(* the project change                                                      *)
(***************************************************************************)
\* the file of the code under review is emptied
Truncate ==
    /\ written # ""
    /\ written' = ""
    /\ last' = [op |-> "truncate"]
    /\ UNCHANGED <<global_mode, cacheVars, threadVars, loaderVars>>

\* validate_file has returned r
Validated(file_path, r) ==
    /\ validator' = r.self
    /\ last' = [op |-> "instance.validate_file", file_path |-> file_path,
                cached |-> Resolve(file_path) \in DOMAIN validator.file_cache,
                issues |-> r.issues]
    /\ UNCHANGED <<global_mode, written, cacheVars, threads, loaderVars>>

\* validator.validate_file(file_path) on the validator that is kept; cached
\* is whether _read_file finds the file in the cache of the instance
InstanceValidateFile ==
    \E file_path \in InstancePaths :
        /\ threads = <<>>
        /\ Validated(file_path, validate_file(validator, Disk(written), file_path))

NextInstance ==
    \/ Edit(InstanceCodes)
    \/ Truncate
    \/ SetMode
    \/ Validate
    \/ NewValidator
    \/ InstanceValidateFile

SpecInstance == Init /\ [][NextInstance]_vars

(***************************************************************************)
(* symbol_validator.py: ConfidenceCalculator.calculate on its own          *)
(***************************************************************************)
\* ConfidenceCalculator().calculate(name, lang, file_content, has_similar,
\* similar_names)
Calculate ==
    \E name \in CalcNames, lang \in CalcLanguages, file_content \in CalcContents, has_similar \in BOOLEAN, similar_names \in CalcSimilar :
        /\ last' = [op |-> "calculate", name |-> name, lang |-> lang,
                    file_content |-> file_content, has_similar |-> has_similar,
                    similar_names |-> similar_names,
                    result |-> calculate(name, lang, file_content, has_similar,
                                         similar_names)]
        /\ UNCHANGED <<global_mode, written, cacheVars, threadVars, loaderVars>>

NextCalculate == Calculate

SpecCalculate == Init /\ [][NextCalculate]_vars

(***************************************************************************)
(* symbol_validator.py: SymbolExtractor._find_docstring_lines on a Python  *)
(* source that is written line by line                                     *)
(***************************************************************************)
\* one more line is written to the Python source
WriteDocLine ==
    \E l \in DocLines :
        /\ AppendLine(written, l) \in DocTexts
        /\ written' = AppendLine(written, l)
        /\ last' = [op |-> "write"]
        /\ UNCHANGED <<global_mode, cacheVars, threadVars, loaderVars>>

\* SymbolExtractor()._find_docstring_lines(written, Language.PYTHON), and the
\* calls that extract_calls finds with it
FindDocstringLines ==
    /\ last' = [op |-> "_find_docstring_lines", content |-> written,
                result |-> find_docstring_lines(written, "PYTHON"),
                calls |-> extract_calls(written, "PYTHON")]
    /\ UNCHANGED <<global_mode, written, cacheVars, threadVars, loaderVars>>

NextDocstring ==
    \/ WriteDocLine
    \/ FindDocstringLines

SpecDocstring == Init /\ [][NextDocstring]_vars

(***************************************************************************)
(* handlers.py: chainguard_validate_symbols on the project /srv/app        *)
(***************************************************************************)
\* the reply r is sent and the cache is as the call left it
Replied(file, code, r) ==
    /\ symbol_cache' = r.cache
    /\ symbol_cache_time' = r.cache_time
    /\ last' = [op |-> "chainguard_validate_symbols", mode |-> global_mode,
                file |-> file, code |-> code, reply |-> r.reply,
                issues |-> r.issues, known_symbols |-> r.known_symbols]
    /\ UNCHANGED <<global_mode, written, clock, threadVars, loaderVars>>

\* handle_validate_symbols({"working_dir": ..., "file": file, "code": code})
HandleValidateSymbols ==
    \E file \in HandleFiles, code \in InstanceCodes \cup {""} :
        Replied(file, code,
                handle_validate_symbols(global_mode, symbol_cache,
                                        symbol_cache_time, Disk(written),
                                        working_dir, file, code, clock))

NextHandle ==
    \/ Edit(InstanceCodes)
    \/ SetMode
    \/ HandleValidateSymbols

SpecHandle == Init /\ [][NextHandle]_vars

(***************************************************************************)
(* The claims                                                              *)
(***************************************************************************)
\* the last call is a call of validate
IsValidate == last.op = "validate"

\* the number of the issues whose confidence is above c
NumAbove(issues, c) == Cardinality({k \in DOMAIN issues : issues[k].confidence > c})

\* C1: a result of validate has should_block only if the current mode is
\* STRICT, and AdaptiveSymbolValidation.should_block is true only for the
\* mode STRICT, whatever the issues are
C1_BlocksOnlyInStrict ==
    /\ (IsValidate /\ last.result.should_block) => global_mode = "STRICT"
    /\ (last.op = "should_block" /\ last.result) => last.mode = "STRICT"

\* C1 happens: validate has found five issues of confidence 1.0 under WARN
\* and does not block
C1_Witness ==
    /\ IsValidate
    /\ global_mode = "WARN"
    /\ NumAbove(last.issues, 900) >= 5
    /\ ~last.result.should_block

\* C2, as the claim states it: under STRICT the should_block of validate is
\* true exactly if at least 5 of the issues have a confidence above 0.9
C2_BlocksIffFiveAbove09 ==
    (IsValidate /\ global_mode = "STRICT")
        => (last.result.should_block <=> NumAbove(last.issues, 900) >= 5)

\* C3: should_block(issues, STRICT) is true exactly if at least 5 of the
\* issues have a confidence above 0.9, and should_block is false for every
\* other mode
C3_ShouldBlockRule ==
    last.op = "should_block"
        => (last.result <=> (last.mode = "STRICT" /\ NumAbove(last.issues, 900) >= 5))

\* C3 happens: under STRICT, five issues of which four have the confidence
\* 0.9 exactly do not block
C3_Witness ==
    /\ last.op = "should_block"
    /\ last.mode = "STRICT"
    /\ Len(last.issues) >= 5
    /\ NumAbove(last.issues, 899) >= 5
    /\ NumAbove(last.issues, 900) < 5
    /\ ~last.result

\* C4: in the mode OFF validate returns no issue, the confidence 0.0 and
\* should_block false, and does not run the extractor
C4_OffReturnsEmpty ==
    (IsValidate /\ global_mode = "OFF")
        => /\ last.result = ValidationResult(<<>>, 0, FALSE)
           /\ ~last.extracted

\* C4 happens: validate is called in the mode OFF on a code that has issues
\* in the mode WARN
C4_Witness ==
    /\ IsValidate
    /\ global_mode = "OFF"
    /\ ValidateTable["WARN", last.code, last.file_path, last.known_symbols].result.issues # <<>>

\* the last call is a call of validate_file
IsValidateFile == last.op = "validate_file"

\* the names of the issues
IssueNames(issues) == {issues[k].name : k \in DOMAIN issues}

\* the language of the code that the last call has validated
LastLang ==
    IF IsValidate THEN detect_language(last.file_path)
    ELSE detect_language(Resolve(last.file_path))

\* the definitions in the files of the project that are of the language, are
\* not in a directory that is skipped and can be read
ProjectDefinitions(code, lang) ==
    UNION {Analysis[Disk(code)[p].text][lang].definitions :
             p \in {f \in DOMAIN Disk(code) :
                      /\ detect_language(f) = lang
                      /\ ~should_skip_path(f)
                      /\ Disk(code)[f].readable}}

\* the names that are defined for the last call: in the code itself, and in
\* known_symbols for validate, in the session symbols and in the project for
\* validate_file
DefinedNames ==
    IF LastLang = NoLanguage THEN {}
    ELSE IF IsValidate
    THEN last.known_symbols \cup Analysis[last.code][LastLang].definitions
    ELSE last.session_symbols \cup Analysis[written][LastLang].definitions
         \cup ProjectDefinitions(written, LastLang)

C6_OneIssuePerUnknownCall ==
    (IsValidate /\ last.extracted)
        => LET calls == Analysis[last.code][LastLang].calls
               unknown == {k \in DOMAIN calls :
                             /\ ~is_builtin(calls[k].name, LastLang)
                             /\ calls[k].name \notin DefinedNames
                             /\ ~is_common_external(calls[k].name)}
           IN  /\ IssueNames(last.issues) \cap DefinedNames = {}
               /\ \A k \in unknown :
                     Cardinality({i \in DOMAIN last.issues :
                                     /\ last.issues[i].name = calls[k].name
                                     /\ last.issues[i].line = calls[k].line}) = 1
               /\ Len(last.issues)
                     = Cardinality({<<calls[k].name, calls[k].line>> : k \in unknown})

\* C6 happens: a code that defines known and calls zork twice in a line has
\* the one issue zork
C6_Witness ==
    /\ IsValidate
    /\ last.code = "def known():\nzork(zork(x))"
    /\ Len(last.issues) = 1
    /\ last.issues[1].name = "zork"

\* C7, as the claim states it: every issue of validate and of validate_file
\* has a confidence from 0.1 to 1.0
C7_ConfidenceInRange ==
    (IsValidate \/ IsValidateFile)
        => \A k \in DOMAIN last.issues :
              /\ last.issues[k].confidence >= 100
              /\ last.issues[k].confidence <= 1000

\* a step of the operation op
IsStepOf(op) == last'.op = op

\* C8: the mode is WARN at first; set_mode makes its argument the mode and
\* get_mode returns the mode, which it leaves as it is; edit, validate,
\* validate_file, get_mode_for_file, get_effective_mode and should_block
\* leave the mode as it is; chainguard_symbol_mode makes the mode it is
\* given the mode and leaves the mode as it is when it does not know the
\* mode it is given or is given none
C8_ModeChangesOnlyWhenSet ==
    /\ global_mode = "WARN"
    /\ [][/\ IsStepOf("set_mode") => global_mode' = last'.arg
          /\ IsStepOf("get_mode")
                => last'.result = global_mode /\ global_mode' = global_mode
          /\ last'.op \in {"edit", "validate", "validate_file", "get_mode_for_file",
                           "get_effective_mode", "should_block"}
                => global_mode' = global_mode
          /\ IsStepOf("chainguard_symbol_mode")
                => IF last'.reply = "set"
                   THEN ModeValue(global_mode') = ToLower(last'.arg)
                   ELSE global_mode' = global_mode]_vars

\* C8 happens: the mode has been set to STRICT and a request with a mode
\* that is not known has left it STRICT
C8_Witness ==
    /\ last.op = "chainguard_symbol_mode"
    /\ last.reply = "invalid"
    /\ last.arg = "loud"
    /\ global_mode = "STRICT"

\* C9: validate in the mode ADAPTIVE returns what it returns in the mode
\* WARN for the same arguments, and does not block; should_block returns for
\* ADAPTIVE what it returns for WARN
C9_AdaptiveAsWarn ==
    /\ (IsValidate /\ last.mode = "ADAPTIVE")
          => /\ last.result = ValidateTable["WARN", last.code, last.file_path,
                                            last.known_symbols].result
             /\ ~last.result.should_block
    /\ (last.op = "should_block" /\ last.mode = "ADAPTIVE")
          => last.result = should_block(last.issues, "WARN")

\* C9 happens: validate in the mode ADAPTIVE has returned five issues of a
\* confidence above 0.9 and does not block
C9_Witness ==
    /\ IsValidate
    /\ last.mode = "ADAPTIVE"
    /\ NumAbove(last.issues, 900) >= 5
    /\ ~last.result.should_block

\* the last call is a call of get_mode_for_file
IsGetModeForFile == last.op = "get_mode_for_file"

\* C10, as the claim states it: get_mode_for_file returns STRICT only for a
\* file of strict_files, never ADAPTIVE, and without strict_files WARN for
\* every path of a relaxed pattern and for every other path that is not in
\* ignore_files
C10_WarnWithoutStrictFiles ==
    IsGetModeForFile
        => /\ last.result = "STRICT" => last.file \in last.strict_files
           /\ last.result # "ADAPTIVE"
           /\ last.strict_files = {}
                 => /\ IsRelaxed(last.file) => last.result = "WARN"
                    /\ (~IsRelaxed(last.file) /\ last.file \notin last.ignore_files)
                          => last.result = "WARN"

\* C10, amended: get_mode_for_file returns STRICT for the files of
\* strict_files and for no other, OFF for the other files that are in
\* ignore_files, whatever their path, and WARN for the rest
C10_ModeByListsOnly ==
    IsGetModeForFile
        => last.result = IF last.file \in last.strict_files THEN "STRICT"
                         ELSE IF last.file \in last.ignore_files THEN "OFF"
                         ELSE "WARN"

\* C10 happens: the path of a controller that is in no list has the mode WARN
C10_Witness ==
    /\ IsGetModeForFile
    /\ last.file = "src/UserController.php"
    /\ last.strict_files = {}
    /\ last.ignore_files = {}
    /\ last.result = "WARN"

\* the last call is a call of get_effective_mode
IsGetEffectiveMode == last.op = "get_effective_mode"

\* the modes that get_mode_for_file gives the files of the last call of
\* get_effective_mode
FileModes ==
    {get_mode_for_file(last.files[k], last.strict_files, last.ignore_files) :
        k \in DOMAIN last.files}

\* C11, as the claim states it: get_effective_mode returns STRICT only if
\* get_mode_for_file gives every file of the list STRICT, and WARN whenever
\* it gives two files of the list different modes
C11_StrictOnlyIfAllStrict ==
    IsGetEffectiveMode
        => /\ last.result = "STRICT" => FileModes \subseteq {"STRICT"}
           /\ Cardinality(FileModes) > 1 => last.result = "WARN"

\* C11, amended: without a user_mode, get_effective_mode returns STRICT if
\* the list has a file and get_mode_for_file gives every file of it STRICT,
\* and WARN otherwise; the user_mode STRICT and the user_mode OFF are returned
\* whatever the files are
C11_BatchRuleWithoutUserMode ==
    IsGetEffectiveMode
        => /\ last.user_mode = NoMode
                => last.result = IF FileModes = {"STRICT"} THEN "STRICT" ELSE "WARN"
           /\ last.user_mode \in {"STRICT", "OFF"} => last.result = last.user_mode

\* C11 happens: without a user_mode, a list of one file that is STRICT and
\* one that is WARN has the mode WARN
C11_Witness ==
    /\ IsGetEffectiveMode
    /\ last.user_mode = NoMode
    /\ FileModes = {"STRICT", "WARN"}
    /\ last.result = "WARN"

\* C12, as the claim states it: get_effective_mode returns the user_mode
\* whenever one is given
C12_UserModeOverrides ==
    (IsGetEffectiveMode /\ last.user_mode # NoMode) => last.result = last.user_mode

\* the last call is a call of extract_calls
IsExtractCalls == last.op = "extract_calls"

\* C13: the result of extract_calls has no (name, line) twice, and a call of
\* extract_calls that follows a call with the same content and the same
\* language returns the same list
C13_NoDuplicateCall ==
    /\ [](IsExtractCalls
            => \A j, k \in DOMAIN last.result :
                  last.result[j] = last.result[k] => j = k)
    /\ [][(/\ IsExtractCalls
           /\ last'.op = "extract_calls"
           /\ last'.content = last.content
           /\ last'.lang = last.lang) => last'.result = last.result]_vars

\* C13 happens: two call patterns of Python capture zork in one line, the
\* first of them twice, and the result has zork once
C13_Witness ==
    /\ IsExtractCalls
    /\ last.content = "a.zork(zork(x))"
    /\ last.lang = "PYTHON"
    /\ Len(LineCaptures(last.content, CALL_PATTERNS["PYTHON"], 1)) = 3
    /\ last.result = <<[name |-> "zork", line |-> 1]>>

\* the index at which the capture of pattern pat starts when the pattern
\* matches at index i of s
RECURSIVE CaptureStart(_, _, _, _)
CaptureStart(s, i, pat, k) ==
    IF k > Len(pat) \/ pat[k].op = "cap" THEN i
    ELSE CaptureStart(s, PartEnd(s, i, pat[k]), pat, k + 1)

\* the index of the first occurrence of the call of name in the stripped
\* line: the least index at which a call pattern of the language captures it
FirstOccurrence(line, name, lang) ==
    CHOOSE c \in 1..Len(line) :
        /\ \E i \in 1..Len(line), k \in DOMAIN CALL_PATTERNS[lang] :
              /\ MatchAt(line, i, CALL_PATTERNS[lang][k]).name = name
              /\ CaptureStart(line, i, CALL_PATTERNS[lang][k], 1) = c
        /\ \A b \in 1..(c - 1) :
              ~\E i \in 1..Len(line), k \in DOMAIN CALL_PATTERNS[lang] :
                  /\ MatchAt(line, i, CALL_PATTERNS[lang][k]).name = name
                  /\ CaptureStart(line, i, CALL_PATTERNS[lang][k], 1) = b

\* the line of a call of the last result, with its literals stripped
StrippedLineOf(call) ==
    strip_string_contents(Split(last.content)[call.line], last.lang)

\* C14, as the claim states it: the pairs of the result of extract_calls are
\* in the order of the lines, and two pairs of one line are in the order in
\* which the first occurrences of their names stand in the line, whichever
\* pattern captured them
C14_FirstOccurrenceOrder ==
    IsExtractCalls =>
        \A j, k \in DOMAIN last.result :
            j < k =>
                \/ last.result[j].line < last.result[k].line
                \/ /\ last.result[j].line = last.result[k].line
                   /\ FirstOccurrence(StrippedLineOf(last.result[j]),
                                      last.result[j].name, last.lang)
                        < FirstOccurrence(StrippedLineOf(last.result[k]),
                                          last.result[k].name, last.lang)

\* the characters that make a quoted literal of the language an interpolated
\* one when they stand before its opening quote
InterpolationPrefix(lang) ==
    IF lang = "PYTHON" THEN {"f"} ELSE IF lang = "CSHARP" THEN {"$"} ELSE {}

\* the line without the contents of its non-interpolated single-quoted and
\* double-quoted literals, whatever characters they hold: a literal runs from
\* a quote to the next quote of its kind that no backslash escapes; an
\* interpolated literal and a template literal are kept whole
RECURSIVE PlainStrip(_, _, _)
PlainStrip(s, i, lang) ==
    IF i > Len(s) THEN ""
    ELSE IF Ch(s, i) \in {"\"", "'"} /\ QuotedEnd(s, i + 1, Ch(s, i), {}) > 0
    THEN (IF i > 1 /\ Ch(s, i - 1) \in InterpolationPrefix(lang)
          THEN SubSeq(s, i, QuotedEnd(s, i + 1, Ch(s, i), {}))
          ELSE Ch(s, i) \o Ch(s, i))
         \o PlainStrip(s, QuotedEnd(s, i + 1, Ch(s, i), {}) + 1, lang)
    ELSE IF Ch(s, i) = Backquote /\ lang = "JAVASCRIPT"
            /\ QuotedEnd(s, i + 1, Backquote, {}) > 0
    THEN SubSeq(s, i, QuotedEnd(s, i + 1, Backquote, {}))
         \o PlainStrip(s, QuotedEnd(s, i + 1, Backquote, {}) + 1, lang)
    ELSE Ch(s, i) \o PlainStrip(s, i + 1, lang)

\* C15, as the claim states it: every name extract_calls returns for a line
\* is the name of a call that stands outside the non-interpolated quoted
\* literals of the line, so that no call-shaped text inside such a literal is
\* returned
C15_NoCallFromPlainLiteral ==
    IsExtractCalls =>
        \A k \in DOMAIN last.result :
            last.result[k].name \in
                SeqToSet(LineCaptures(
                    PlainStrip(Split(last.content)[last.result[k].line], 1,
                               last.lang),
                    CALL_PATTERNS[last.lang], 1))

\* the embedded expressions between the indices i and e of an interpolated
\* literal, each followed by a semicolon: an expression stands between a
\* brace that is not doubled (after a dollar, if dollar is TRUE) and the next
\* closing brace
RECURSIVE Braces(_, _, _, _)
Braces(s, i, e, dollar) ==
    IF i > e THEN ""
    ELSE IF Ch(s, i) = "{" /\ i < e /\ Ch(s, i + 1) = "{" /\ ~dollar
    THEN Braces(s, i + 2, e, dollar)
    ELSE IF /\ Ch(s, i) = "{"
            /\ dollar => (i > 1 /\ Ch(s, i - 1) = "$")
            /\ SkipUntil(s, i + 1, {"}"}) <= e
    THEN SubSeq(s, i + 1, SkipUntil(s, i + 1, {"}"}) - 1) \o ";"
         \o Braces(s, SkipUntil(s, i + 1, {"}"}) + 1, e, dollar)
    ELSE Braces(s, i + 1, e, dollar)

\* the embedded expressions of the interpolated strings of a line: of the
\* f-strings of Python, the $-strings of C# and the template literals of
\* JavaScript
RECURSIVE EmbeddedText(_, _, _)
EmbeddedText(s, i, lang) ==
    IF i > Len(s) THEN ""
    ELSE IF Ch(s, i) \in {"\"", "'"} /\ QuotedEnd(s, i + 1, Ch(s, i), {}) > 0
    THEN (IF /\ i > 1
             /\ Ch(s, i - 1) \in InterpolationPrefix(lang)
             /\ lang = "PYTHON" \/ Ch(s, i) = "\""
          THEN Braces(s, i + 1, QuotedEnd(s, i + 1, Ch(s, i), {}) - 1, FALSE)
          ELSE "")
         \o EmbeddedText(s, QuotedEnd(s, i + 1, Ch(s, i), {}) + 1, lang)
    ELSE IF Ch(s, i) = Backquote /\ lang = "JAVASCRIPT"
            /\ QuotedEnd(s, i + 1, Backquote, {}) > 0
    THEN Braces(s, i + 1, QuotedEnd(s, i + 1, Backquote, {}) - 1, TRUE)
         \o EmbeddedText(s, QuotedEnd(s, i + 1, Backquote, {}) + 1, lang)
    ELSE EmbeddedText(s, i + 1, lang)

\* the lines of the last content that are a single-line comment or lie in a
\* multi-line comment or a docstring
CommentLines ==
    {n \in DOMAIN Split(last.content) :
        \/ n \in find_docstring_lines(last.content, last.lang)
        \/ is_comment_line(Split(last.content)[n], last.lang)}

\* C16, as the claim states it: extract_calls returns every call that stands
\* in an embedded expression of an interpolated string of a line that is no
\* comment
C16_EmbeddedCallReturned ==
    IsExtractCalls =>
        \A n \in DOMAIN Split(last.content) \ CommentLines :
            \A name \in SeqToSet(LineCaptures(
                            EmbeddedText(Split(last.content)[n], 1, last.lang),
                            CALL_PATTERNS[last.lang], 1)) :
                is_valid_symbol(name, last.lang)
                    => [name |-> name, line |-> n] \in SeqToSet(last.result)

\* the lines from the k-th on, joined by newlines, those of skip left empty
RECURSIVE JoinWithout(_, _, _)
JoinWithout(lines, k, skip) ==
    IF k > Len(lines) THEN ""
    ELSE (IF k \in skip THEN "" ELSE lines[k])
         \o (IF k < Len(lines) THEN "\n" ELSE "")
         \o JoinWithout(lines, k + 1, skip)

\* C17, as the claim states it: no pair of the result of extract_calls has a
\* line that is a comment or lies in a comment block or a docstring, and
\* every name of the result of extract_definitions is defined by the lines
\* that are none of these
C17_CommentLinesContributeNothing ==
    /\ IsExtractCalls =>
          \A k \in DOMAIN last.result : last.result[k].line \notin CommentLines
    /\ last.op = "extract_definitions" =>
          last.result \subseteq
              extract_definitions(JoinWithout(Split(last.content), 1, CommentLines),
                                  last.lang)

\* C18, as the claim states it: in PHP a name is a builtin if and only if it
\* equals a member of the PHP vocabulary up to the case of its letters, and
\* in every other language if and only if it is a member of the vocabulary
\* of the language as it is written
C18_BuiltinUpToCaseInPhp ==
    last.op = "is_builtin" =>
        last.result =
            IF last.lang = "PHP"
            THEN \E m \in BUILTINS["PHP"] : ToLower(m) = ToLower(last.name)
            ELSE last.name \in BUILTINS[last.lang]

\* the last call is a call of _get_project_symbols
IsGetProjectSymbols == last.op = "_get_project_symbols"

\* the key of the call that a step makes
CalledKey == cache_key(last'.project_path, last'.lang)

\* C19: a call of _get_project_symbols at the time of the clock returns the
\* entry of its key without a scan if the entry was stored less than 300
\* seconds before; otherwise it scans the project, returns what the scan found
\* and stores it with the time of the clock; it leaves the entries of the
\* other keys as they were; and the set that a call returned was stored with
\* a time less than 300 seconds before the call
C19_CachedForTimeToLive ==
    /\ [][(/\ last'.op = "_get_project_symbols"
           /\ <<last, symbol_cache, symbol_cache_time>>'
                # <<last, symbol_cache, symbol_cache_time>>)
          => /\ last'.now = clock
             /\ IF /\ CalledKey \in DOMAIN symbol_cache
                   /\ clock - symbol_cache_time[CalledKey] < 300
                THEN /\ ~last'.scanned
                     /\ last'.result = symbol_cache[CalledKey]
                     /\ UNCHANGED <<symbol_cache, symbol_cache_time>>
                ELSE /\ last'.scanned
                     /\ last'.result = project_symbols(Disk(written),
                                                       last'.project_path,
                                                       last'.lang)
                     /\ symbol_cache'[CalledKey] = last'.result
                     /\ symbol_cache_time'[CalledKey] = clock
             /\ DOMAIN symbol_cache' = DOMAIN symbol_cache \cup {CalledKey}
             /\ DOMAIN symbol_cache_time' = DOMAIN symbol_cache'
             /\ \A k \in DOMAIN symbol_cache \ {CalledKey} :
                   /\ symbol_cache'[k] = symbol_cache[k]
                   /\ symbol_cache_time'[k] = symbol_cache_time[k]]_vars
    /\ [](IsGetProjectSymbols
            => /\ cache_key(last.project_path, last.lang) \in DOMAIN symbol_cache
               /\ last.result
                    = symbol_cache[cache_key(last.project_path, last.lang)]
               /\ last.now - symbol_cache_time[cache_key(last.project_path,
                                                         last.lang)]
                    \in 0..299)

\* C19 happens: a call returns an entry that is 299 seconds old without a
\* scan, the project has other definitions by then, and the cache has an
\* entry of another key
C19_Witness ==
    /\ IsGetProjectSymbols
    /\ ~last.scanned
    /\ last.now - symbol_cache_time[cache_key(last.project_path, last.lang)] = 299
    /\ last.result # project_symbols(Disk(written), last.project_path, last.lang)
    /\ DOMAIN symbol_cache # {cache_key(last.project_path, last.lang)}

\* C20, as the claim states it: of the threads of one call of
\* validate_files_async, no two have both executed the scan of
\* _get_all_definitions for the same language
C20_ScanOncePerLanguage ==
    \A t, u \in DOMAIN threads :
        (/\ t # u
         /\ threads[t].scanned
         /\ threads[u].scanned) => threads[t].lang # threads[u].lang

\* C21: after a lookup for PHP the loader is loaded, whatever the file was,
\* and the lookup has returned TRUE or FALSE; the loader stays loaded until it
\* is reset; a lookup made while the loader is loaded does not open the file;
\* and BUILTINS of PHP never loses a name
C21_LoadedOncePerProcess ==
    /\ []((last.op = "is_builtin" /\ "read" \in DOMAIN last)
            => /\ last.result \in BOOLEAN
               /\ last.lang = "PHP" => php_loaded)
    /\ [][/\ (php_loaded /\ last'.op # "reset") => php_loaded'
          /\ (php_loaded /\ last'.op = "is_builtin" /\ last' # last)
                => ~last'.read
          /\ php_builtins \subseteq php_builtins']_vars

\* C21 happens: the first lookup found a file that could not be used, the file
\* has the names of symbols by now, and a later lookup for PHP has not opened
\* it: its names are not in BUILTINS
C21_Witness ==
    /\ last.op = "is_builtin"
    /\ last.lang = "PHP"
    /\ ~last.read
    /\ php_loaded
    /\ php_asset.kind = "symbols"
    /\ ~(php_asset.names \subseteq php_builtins)

\* the last operation was validate_file on the validator that is kept
IsInstanceValidateFile == last.op = "instance.validate_file"

\* the file does not exist, cannot be read, is empty or has no language
FailsToRead(file_path, disk) ==
    \/ Resolve(file_path) \notin DOMAIN disk
    \/ ~disk[Resolve(file_path)].readable
    \/ disk[Resolve(file_path)].text = ""
    \/ detect_language(Resolve(file_path)) = NoLanguage

\* the cache entries of the files other than file_path are the same in both
\* instances, and so are the definitions collected
OtherCachesSame(before, after, file_path) ==
    /\ after.definition_cache = before.definition_cache
    /\ DOMAIN after.file_cache \ {Resolve(file_path)} = DOMAIN before.file_cache \ {Resolve(file_path)}
    /\ \A k \in DOMAIN before.file_cache \ {Resolve(file_path)} : after.file_cache[k] = before.file_cache[k]

\* validate returns the empty result for a path without a language
C22_ValidateEmptyWithoutLanguage ==
    (IsValidate /\ detect_language(last.file_path) = NoLanguage)
        => last.result = ValidationResult(<<>>, 0, FALSE)

\* C22 as stated: validate_file returns no issue for a file that does not
\* exist, cannot be read, is empty or has no language, validate returns the
\* empty result for a path without a language, and in each case the mode
\* and the caches of the other files stay as they were
C22_FailuresGiveNoIssues ==
    /\ [](C22_ValidateEmptyWithoutLanguage)
    /\ []((IsInstanceValidateFile /\ FailsToRead(last.file_path, Disk(written)))
            => last.issues = <<>>)
    /\ [][(IsInstanceValidateFile' /\ FailsToRead(last'.file_path, Disk(written')))
            => /\ global_mode' = global_mode
               /\ OtherCachesSame(validator, validator', last'.file_path)]_vars

\* C22 for a file that the instance has not read before: validate_file
\* returns no issue for a file that does not exist, cannot be read, is empty
\* or has no language, validate returns the empty result for a path without
\* a language, and in each case the mode and the caches of the other files
\* stay as they were
C22_FailuresGiveNoIssuesUnlessCached ==
    /\ [](C22_ValidateEmptyWithoutLanguage)
    /\ []((IsInstanceValidateFile /\ ~last.cached
              /\ FailsToRead(last.file_path, Disk(written)))
            => last.issues = <<>>)
    /\ [][(IsInstanceValidateFile' /\ ~last'.cached
              /\ FailsToRead(last'.file_path, Disk(written')))
            => /\ global_mode' = global_mode
               /\ OtherCachesSame(validator, validator', last'.file_path)]_vars

\* validate_file has returned no issue for an empty file after the instance
\* had read the PHP files and collected their definitions
C22_Witness ==
    /\ IsInstanceValidateFile
    /\ last.file_path = "a.py"
    /\ written = ""
    /\ ~last.cached
    /\ last.issues = <<>>
    /\ "/srv/app/b.php" \in DOMAIN validator.file_cache
    /\ validator.definition_cache # <<>>

\* the last operation was calculate
IsCalculate == last.op = "calculate"

\* v when cond holds and 0 otherwise
Adjust(cond, v) == IF cond THEN v ELSE 0

\* the conditions of calculate that hold at its last call, in the order of
\* the code
ConditionsMet ==
    <<is_common_external(last.name),
      has_many_imports(last.file_content, last.lang),
      has_dynamic_patterns(last.file_content, last.lang),
      last.has_similar,
      Len(last.name) <= 3,
      looks_like_external(last.name, last.lang),
      is_common_pattern(last.name),
      naming_convention_mismatch(last.name, last.lang)>>

\* C23: calculate returns 1.0 - 0.3 [common external] - 0.15 [many imports]
\* - 0.25 [dynamic patterns] + 0.1 [has_similar] - 0.2 [len <= 3]
\* - 0.2 [getter, setter or handler convention] - 0.15 [common verb prefix]
\* - 0.1 [casing mismatch], clamped to [0.1, 1.0]: every adjustment that
\* applies is made, and similar_names does not change the result
C23_EveryAdjustmentApplied ==
    IsCalculate =>
        /\ last.result =
              Max2(100, Min2(1000,
                  1000 - Adjust(ConditionsMet[1], 300) - Adjust(ConditionsMet[2], 150)
                       - Adjust(ConditionsMet[3], 250) + Adjust(ConditionsMet[4], 100)
                       - Adjust(ConditionsMet[5], 200) - Adjust(ConditionsMet[6], 200)
                       - Adjust(ConditionsMet[7], 150) - Adjust(ConditionsMet[8], 100)))
        /\ \A s \in CalcSimilar :
              calculate(last.name, last.lang, last.file_content, last.has_similar, s)
                  = last.result

\* calculate has made six adjustments at once: a short name with a getter
\* prefix and the wrong casing in a Python file with many imports and a
\* dynamic pattern
C23_Witness ==
    /\ IsCalculate
    /\ ConditionsMet = <<FALSE, TRUE, TRUE, FALSE, TRUE, TRUE, TRUE, TRUE>>
    /\ last.similar_names # <<>>
    /\ last.result = 100

\* the content of the file that validate_file was last called on
LastFileContent == Disk(written)[Resolve(last.file_path)].text

\* the confidence of a call of name before the limits are applied, the
\* adjustment for a common external name left out
UnclampedButExternal(name, lang, content, has_similar) ==
    1000 - Adjust(has_many_imports(content, lang), 150)
         - Adjust(has_dynamic_patterns(content, lang), 250)
         + Adjust(has_similar, 100)
         - Adjust(Len(name) <= 3, 200)
         - Adjust(looks_like_external(name, lang), 200)
         - Adjust(is_common_pattern(name), 150)
         - Adjust(naming_convention_mismatch(name, lang), 100)

\* the calls of the file last validated whose name is a common external name
\* and is neither a builtin nor whitelisted nor defined anywhere
UnresolvedExternalCalls ==
    {k \in DOMAIN Analysis[LastFileContent][LastLang].calls :
        LET name == Analysis[LastFileContent][LastLang].calls[k].name
        IN  /\ is_common_external(name)
            /\ ~is_builtin(name, LastLang)
            /\ name \notin last.whitelist \cup last.session_symbols
            /\ name \notin Analysis[LastFileContent][LastLang].definitions
            /\ name \notin ProjectDefinitions(written, LastLang)}

\* C24: validate has no issue for a common external name; validate_file has
\* an issue for every call of a common external name that is not resolved
\* otherwise, and its confidence is the confidence of the other adjustments
\* less 0.3, brought into the limits afterwards
C24_ExternalNameOnlyInValidateFile ==
    /\ IsValidate => \A n \in IssueNames(last.issues) : ~is_common_external(n)
    /\ (/\ IsValidateFile
        /\ Resolve(last.file_path) \in DOMAIN Disk(written)
        /\ LastLang # NoLanguage)
        => \A k \in UnresolvedExternalCalls :
              LET call == Analysis[LastFileContent][LastLang].calls[k]
              IN  \E i \in DOMAIN last.issues :
                     /\ last.issues[i].name = call.name
                     /\ last.issues[i].line = call.line
                     /\ last.issues[i].confidence =
                           Max2(100, Min2(1000,
                               UnclampedButExternal(
                                   call.name, LastLang, LastFileContent,
                                   find_similar(call.name,
                                                ProjectDefinitions(written, LastLang)) # {})
                               - 300))

\* validate_file has reported the common external name save, 0.3 and 0.15
\* below 1.0, for a code that validate has no issue for
C24_Witness ==
    /\ IsValidateFile
    /\ last.file_path = "a.py"
    /\ written = "save(x)"
    /\ UnresolvedExternalCalls = {1}
    /\ Len(last.issues) = 1
    /\ last.issues[1].name = "save"
    /\ last.issues[1].confidence = 550
    /\ ValidateTable["STRICT", written, "a.py", {}].result.issues = <<>>

\* the path of the file f below the project root
BelowRoot(f, root) == From(f, Len(root) + 2)

\* the file f lies in a directory below the project root that has one of the
\* names that _get_project_symbols skips
InSkippedDirectory(f, root) ==
    \E skip \in {"node_modules", "vendor", ".git", "__pycache__", "dist", "build"} :
        \/ StartsWith(BelowRoot(f, root), skip \o "/")
        \/ Contains(BelowRoot(f, root), "/" \o skip \o "/")

\* the files of the language under the project root that can be read
SourceFilesOf(disk, root, lang) ==
    {f \in DOMAIN disk :
        /\ StartsWith(f, root \o "/")
        /\ detect_language(f) = lang
        /\ disk[f].readable}

\* C25: when _get_project_symbols scans the project, every source file of
\* the language that does not lie in a skipped directory below the project
\* root contributes its definitions, whatever names the path of the project
\* root contains
C25_OnlySkippedDirectoriesLeftOut ==
    (IsGetProjectSymbols /\ last.scanned)
        => \A f \in SourceFilesOf(Disk(written), last.project_path, last.lang) :
              ~InSkippedDirectory(f, last.project_path)
                  => Analysis[Disk(written)[f].text][last.lang].definitions
                        \subseteq last.result

\* the last operation was _find_docstring_lines
IsFindDocstringLines == last.op = "_find_docstring_lines"

\* the line has a triple quote of one of the two styles
HasTripleQuote(line) == Contains(line, "\"\"\"") \/ Contains(line, "'''")

\* the style that a line opens a block with
OpeningStyle(line) == IF Contains(line, "\"\"\"") THEN "\"\"\"" ELSE "'''"

\* the scanner as C26 describes it, one line: a line in a block is skipped
\* whatever it contains, and the block ends at a line with its own style
BlockStep(st, line, line_num) ==
    IF st.in_docstring
    THEN [in_docstring |-> ~Contains(line, st.docstring_char),
          docstring_char |-> IF Contains(line, st.docstring_char) THEN ""
                             ELSE st.docstring_char,
          skip_lines |-> st.skip_lines \cup {line_num}]
    ELSE IF HasTripleQuote(line)
    THEN [in_docstring |-> Count(line, OpeningStyle(line)) < 2,
          docstring_char |-> IF Count(line, OpeningStyle(line)) < 2
                             THEN OpeningStyle(line) ELSE "",
          skip_lines |-> st.skip_lines \cup {line_num}]
    ELSE st

RECURSIVE BlockLinesFrom(_, _, _)
BlockLinesFrom(st, lines, k) ==
    IF k > Len(lines) THEN st.skip_lines
    ELSE BlockLinesFrom(BlockStep(st, lines[k], k), lines, k + 1)

\* C26: _find_docstring_lines returns every line from the line that opens a
\* triple-quoted block through the line that closes it with the same style,
\* the lines in between with a quote of the other style included; a line
\* that opens and closes a block leaves the scanner outside
C26_BlockLinesSkipped ==
    IsFindDocstringLines
        => last.result =
              BlockLinesFrom([in_docstring |-> FALSE, docstring_char |-> "",
                              skip_lines |-> {}],
                             Split(last.content), 1)

\* the name ends with the suffix
HasSuffix(name, suffix) ==
    Len(name) >= Len(suffix) /\ From(name, Len(name) - Len(suffix) + 1) = suffix

\* the naming convention of a getter, a setter or a handler as C27 describes
\* it: one of the prefixes and an upper-case letter after it, or one of the
\* suffixes at the end of the name
ExternalConvention(name) ==
    \/ \E p \in {"get", "set", "is", "has", "on", "handle", "fetch"} :
          /\ StartsWith(name, p)
          /\ Len(name) > Len(p)
          /\ Ch(name, Len(p) + 1) \in UpperCh
    \/ \E suffix \in {"Async", "Sync", "Callback", "Handler"} : HasSuffix(name, suffix)

\* C27: calculate subtracts 0.2 for a name that starts with get, set, is,
\* has, on, handle or fetch and an upper-case letter, and for every name that
\* ends with Async, Sync, Callback or Handler, such as loadAsync
C27_ConventionCostsTwoTenths ==
    (IsCalculate /\ ExternalConvention(last.name))
        => last.result =
              Max2(100, Min2(1000,
                  1000 - Adjust(ConditionsMet[1], 300) - Adjust(ConditionsMet[2], 150)
                       - Adjust(ConditionsMet[3], 250) + Adjust(ConditionsMet[4], 100)
                       - Adjust(ConditionsMet[5], 200) - 200
                       - Adjust(ConditionsMet[7], 150) - Adjust(ConditionsMet[8], 100)))

\* C28: when the code has a dynamic pattern, every issue of validate has a
\* confidence of at most 0.375, and validate does not set should_block in
\* any mode
C28_DynamicCodeNeverBlocks ==
    (IsValidate /\ LastLang # NoLanguage /\ has_dynamic_patterns(last.code, LastLang))
        => /\ \A k \in DOMAIN last.issues : last.issues[k].confidence <= 375
           /\ ~last.result.should_block

\* validate in the mode STRICT has given 0.375 to the call zork of a code
\* with eval, and has not set should_block
C28_Witness ==
    /\ IsValidate
    /\ last.mode = "STRICT"
    /\ last.code = "zork(x)\nisA(eval(x))"
    /\ last.file_path = "a.py"
    /\ \E k \in DOMAIN last.issues :
          last.issues[k].name = "zork" /\ last.issues[k].confidence = 375
    /\ ~last.result.should_block

\* the instance after has every entry of the two caches of the instance
\* before, as it was
CachesKept(before, after) ==
    /\ \A lang \in DOMAIN before.definition_cache :
          /\ lang \in DOMAIN after.definition_cache
          /\ after.definition_cache[lang] = before.definition_cache[lang]
    /\ \A k \in DOMAIN before.file_cache :
          /\ k \in DOMAIN after.file_cache
          /\ after.file_cache[k] = before.file_cache[k]

\* the instance has read the file and has scanned the project for its
\* language
ReadAndScanned(self, file_path) ==
    /\ Resolve(file_path) \in DOMAIN self.file_cache
    /\ detect_language(Resolve(file_path)) \in DOMAIN self.definition_cache

\* C29: as long as the instance is kept, an entry of its definition cache
\* and of its file cache stays as it was stored, so the project is scanned
\* at most once for a language and a file is read at most once; and once the
\* instance has read a file and scanned for its language, validate_file
\* returns for the file what it would return whatever the file under review
\* has become on disk
C29_CachesNeverRefreshed ==
    /\ [][last'.op # "AsyncSymbolValidator" => CachesKept(validator, validator')]_vars
    /\ [][(IsInstanceValidateFile' /\ ReadAndScanned(validator, last'.file_path))
            => /\ validator' = validator
               /\ \A code \in InstanceCodes \cup {""} :
                     validate_file(validator, Disk(code), last'.file_path).issues
                         = last'.issues]_vars

\* a definition of known has been added to the project after the instance
\* scanned it, and validate_file of the file that calls known still reports
\* known
C29_Witness ==
    /\ IsInstanceValidateFile
    /\ last.file_path = "c.py"
    /\ last.cached
    /\ "known" \in ProjectDefinitions(written, "PYTHON")
    /\ "known" \notin validator.definition_cache["PYTHON"]
    /\ IssueNames(last.issues) = {"known"}

\* the last operation was chainguard_validate_symbols with inline code and
\* no file
IsInlineValidation ==
    last.op = "chainguard_validate_symbols" /\ last.file = "" /\ last.code # ""

\* the names that the inline code calls as Python code, without the
\* builtins, the common external names, the names that the code defines and
\* the known symbols of the project
UnresolvedInlineCalls ==
    {Analysis[last.code]["PYTHON"].calls[k].name :
        k \in {j \in DOMAIN Analysis[last.code]["PYTHON"].calls :
                  LET name == Analysis[last.code]["PYTHON"].calls[j].name
                  IN  /\ ~is_builtin(name, "PYTHON")
                      /\ ~is_common_external(name)
                      /\ name \notin Analysis[last.code]["PYTHON"].definitions
                      /\ name \notin last.known_symbols}}

\* C30: chainguard_validate_symbols with inline code and no file validates
\* the code as Python, the language it looks the known symbols up in, so it
\* reports every unresolved call of the code unless the mode is OFF
C30_InlineCodeValidatedAsPython ==
    (IsInlineValidation /\ last.mode # "OFF")
        => UnresolvedInlineCalls \subseteq IssueNames(last.issues)



=============================================================================
